---------------------------- MODULE Spec2Model ----------------------------
(***************************************************************************)
(* Ranking and trend analytics of the e-commerce ranking system.           *)
(*                                                                         *)
(* The store (tables products and product_history of storage/models.py)    *)
(* is the state; RankingEngine (analytics/ranking_engine.py) and           *)
(* TrendAnalyzer (analytics/trend_analyzer.py) are read operations whose   *)
(* outcome is recorded in the variable result.                             *)
(*                                                                         *)
(* Units.  Prices, sales volumes, review counts and ratings are integers.  *)
(* Scores that the code computes in floating point are kept exactly as     *)
(* scaled integers: popularity_score in hundredths, the hot ordering       *)
(* expression in tenths, growth rates in hundredths of a percent (the      *)
(* code rounds them to two decimals).  Time is counted in days (86400      *)
(* seconds): a snapshot is dated by the day it was taken, and a product    *)
(* has at most one snapshot per day.                                       *)
(***************************************************************************)
EXTENDS Integers, Sequences, FiniteSets, TLC

VARIABLES
    products,   \* table products, in storage (insertion) order
    history,    \* table product_history, a set of rows
    now,        \* time.time() / datetime.now(), in days
    result      \* outcome of the last operation called

vars == <<products, history, now, result>>

---------------------------------------------------------------------------
(* Bounds of the model *)

MaxProducts == 2
MaxDay == 2
NumCategories == 6

---------------------------------------------------------------------------
(* Generic helpers *)

Min(a, b) == IF a <= b THEN a ELSE b

Max(a, b) == IF a >= b THEN a ELSE b

Range(s) == {s[i] : i \in DOMAIN s}

RECURSIVE Pow(_, _)
Pow(b, e) == IF e = 0 THEN 1 ELSE b * Pow(b, e - 1)

RECURSIVE SumSeq(_)
SumSeq(s) == IF s = <<>> THEN 0 ELSE Head(s) + SumSeq(Tail(s))

RECURSIVE SumOver(_, _)
SumOver(S, f) ==
    IF S = {} THEN 0
    ELSE LET x == CHOOSE y \in S : TRUE IN f[x] + SumOver(S \ {x}, f)

(* Python dict {} *)
EmptyDict == [k \in {} |-> 0]

(* s[:n] and SQL LIMIT n *)
Take(s, n) == SubSeq(s, 1, Min(n, Len(s)))

(* A stable sort: a comes before b when Before(a, b), ties keep the order *)
(* of s.                                                                   *)
StableSort(s, Before(_, _)) ==
    LET n == Len(s)
        Prec(i, j) == Before(s[i], s[j]) \/ (~Before(s[j], s[i]) /\ i < j)
        Pos(i) == Cardinality({j \in 1..n : Prec(j, i)}) + 1
    IN  [p \in 1..n |-> s[CHOOSE i \in 1..n : Pos(i) = p]]

(* The elements of a set of rows as a sequence ordered by Before *)
RECURSIVE SetToSeq(_)
SetToSeq(S) ==
    IF S = {} THEN <<>>
    ELSE LET x == CHOOSE y \in S : TRUE IN <<x>> \o SetToSeq(S \ {x})

(* round(n / d, 0) for d > 0, ties to even, as Python's round() *)
RoundDiv(n, d) ==
    LET q == n \div d
        r == n % d
    IN  IF 2 * r < d THEN q
        ELSE IF 2 * r > d THEN q + 1
        ELSE IF q % 2 = 0 THEN q ELSE q + 1

(* str.lower() on the platform names the callers pass *)
Lower(s) ==
    CASE s = "TikTok" -> "tiktok"
      [] s = "Amazon" -> "amazon"
      [] s = "Shopee" -> "shopee"
      [] OTHER -> s

(* The category names, in name order *)
CategoryName(i) ==
    CASE i = 1 -> "c1" [] i = 2 -> "c2" [] i = 3 -> "c3" [] i = 4 -> "c4" [] i = 5 -> "c5"
      [] i = 6 -> "c6" [] i = 7 -> "c7" [] i = 8 -> "c8" [] i = 9 -> "c9" [] OTHER -> "c"

(* a < b for category and platform names *)
NameBefore(a, b) ==
    LET Index(n) == CASE n = "amazon" -> 11 [] n = "shopee" -> 12 [] n = "tiktok" -> 13
                      [] OTHER -> CHOOSE i \in 0..9 : CategoryName(i) = n
    IN  Index(a) < Index(b)

(* The calendar day of a timestamp: pd.to_datetime(ts, unit='s').dt.date *)
DayOf(t) == t

---------------------------------------------------------------------------
(* storage/models.py *)

(* The score without the cap on the sales contribution *)
calculate_popularity_score_uncapped(sales_volume, rating, reviews_count) ==
    sales_volume * 6 + rating * 500 + Min(reviews_count, 500) * 3

(* Product.calculate_popularity_score, in hundredths:                      *)
(*   min(sales_volume / 1000, 1) * 60 + (rating / 5) * 25                  *)
(*   + min(reviews_count / 500, 1) * 15                                    *)
calculate_popularity_score(sales_volume, rating, reviews_count) ==
    LET sales_factor == Min(sales_volume, 1000) * 6
        rating_factor == rating * 500
        reviews_factor == Min(reviews_count, 500) * 3
    IN  sales_factor + rating_factor + reviews_factor

(* A row of table products *)
Product(product_id, platform, category, price, sales_volume, rating, reviews_count, keywords) ==
    [product_id |-> product_id, platform |-> platform, category |-> category,
     price |-> price, sales_volume |-> sales_volume, rating |-> rating,
     reviews_count |-> reviews_count,
     popularity_score |->
         calculate_popularity_score(sales_volume, rating, reviews_count),
     keywords |-> keywords]

(* A row of table product_history *)
ProductHistory(product_id, platform, category, date, price, sales_volume, rating, reviews_count) ==
    [product_id |-> product_id, platform |-> platform, category |-> category,
     date |-> date, price |-> price, sales_volume |-> sales_volume,
     rating |-> rating, reviews_count |-> reviews_count]

(* Product.to_dict *)
to_dict(p) == p

ProductIds == {products[i].product_id : i \in DOMAIN products}

---------------------------------------------------------------------------
(* The store is written from outside the analytics: a collected product    *)
(* becomes a row of products (product_id is unique), each collection adds  *)
(* a row to product_history dated now.                                     *)

StoreProduct(row) ==
    /\ row.product_id \notin ProductIds
    /\ products' = Append(products, row)
    /\ result' = [op |-> "none"]
    /\ UNCHANGED <<history, now>>

StoreSnapshot(i, price, sales_volume) ==
    /\ i \in DOMAIN products
    /\ \A h \in history :
           ~(h.product_id = products[i].product_id /\ h.date = now)
    /\ history' = history \cup
           {ProductHistory(products[i].product_id, products[i].platform,
                           products[i].category, now, price, sales_volume,
                           products[i].rating, products[i].reviews_count)}
    /\ result' = [op |-> "none"]
    /\ UNCHANGED <<products, now>>

Tick ==
    /\ now < MaxDay
    /\ now' = now + 1
    /\ UNCHANGED <<products, history, result>>

---------------------------------------------------------------------------
(* analytics/ranking_engine.py *)

(* A store fault during an operation: "session" when db.Session() raises,  *)
(* "query" when a query raises, "none" otherwise.                          *)
Faults == {"none", "session", "query"}

Returned(v) == [raised |-> FALSE, out |-> v]

(* An exception leaves the method *)
Raised == [raised |-> TRUE, out |-> <<>>]

(* if platform: query.filter(Product.platform == platform.lower()) *)
PlatformFilterLower(row, platform) ==
    platform = "" \/ row.platform = Lower(platform)

(* if platform: query.filter(Product.platform == platform) *)
PlatformFilterExact(row, platform) ==
    platform = "" \/ row.platform = platform

(* if category: query.filter(Product.category == category) *)
CategoryFilter(row, category) ==
    category = "" \/ row.category = category

(* The ORDER BY expression of the hot ranking, in tenths:                  *)
(*   sales_volume * 1.0 + rating * 20.0 + reviews_count * 0.1              *)
HotOrderKey(p) == p.sales_volume * 10 + p.rating * 200 + p.reviews_count

HotBefore(a, b) == HotOrderKey(a) > HotOrderKey(b)

(* Ranks counted from the 0-based position *)
AddRankFromZero(s) == [i \in 1..Len(s) |-> s[i] @@ [rank |-> i - 1]]

(* for i, product in enumerate(products): product['rank'] = i + 1 *)
AddRank(s) == [i \in 1..Len(s) |-> s[i] @@ [rank |-> i]]

(* The rows a hot query returns, rows of equal key in storage order: one   *)
(* of the orders the database may choose (HotOrders has them all)          *)
HotQuery(rows, limit) == Take(StableSort(rows, HotBefore), limit)

get_hot_products(platform, category, limit, fault) ==
    IF fault = "session"
    THEN Raised   \* except returns [], then finally: session.close() raises
    ELSE IF fault = "query" THEN Returned(<<>>)
    ELSE LET Match(p) == PlatformFilterLower(p, platform)
                         /\ CategoryFilter(p, category)
             rows == HotQuery(SelectSeq(products, Match), limit)
         IN  Returned(AddRank([i \in 1..Len(rows) |-> to_dict(rows[i])]))

(* The last call was op(args) under fault, at this time *)
SameCall(op, args, fault) ==
    /\ result.op = op
    /\ result.args = args
    /\ result.fault = fault
    /\ result.now = now

(* A call that consumes the oldest product it read *)
CallWithSideEffect(op, args, fault, r) ==
    /\ result' = [op |-> op, args |-> args, fault |-> fault, now |-> now, raised |-> r.raised, out |-> r.out,
                  repeated |-> SameCall(op, args, fault)]
    /\ products' = IF products = <<>> THEN products ELSE Tail(products)
    /\ UNCHANGED <<history, now>>

(* A caller invokes an operation: result takes its outcome.  The field     *)
(* repeated tells that the call before it, on the same store at the same   *)
(* time, was the same call.                                                *)
Call(op, args, fault, r) ==
    /\ result' = [op |-> op, args |-> args, fault |-> fault, now |-> now, raised |-> r.raised, out |-> r.out,
                  repeated |-> SameCall(op, args, fault)]
    /\ UNCHANGED <<products, history, now>>

Call_get_hot_products(platform, category, limit, fault) ==
    Call("get_hot_products", [platform |-> platform, category |-> category, limit |-> limit], fault,
         get_hot_products(platform, category, limit, fault))

(* time.time() - days * 86400 *)
WindowStart(days) == now - days

DateBefore(a, b) == a.date < b.date

(* query(ProductHistory).filter(product_id == ..., date >= start_time)      *)
(*     .order_by(date.asc()).all()                                          *)
HistoryQuery(product_id, start_time) ==
    StableSort(SetToSeq({h \in history : h.product_id = product_id /\ h.date >= start_time}), DateBefore)

(* The growth computed against the last record instead of the first *)
GrowthRateOverLast(hist) ==
    IF Len(hist) > 1 /\ hist[Len(hist)].sales_volume > 0
    THEN RoundDiv((hist[Len(hist)].sales_volume - hist[1].sales_volume) * 10000, hist[Len(hist)].sales_volume)
    ELSE 0

(* round(((last - first) / first) * 100, 2), in hundredths of a percent;   *)
(* 0 unless the history holds more than one record and first > 0.          *)
GrowthRate(hist) ==
    IF Len(hist) > 1 /\ hist[1].sales_volume > 0
    THEN RoundDiv((hist[Len(hist)].sales_volume - hist[1].sales_volume) * 10000, hist[1].sales_volume)
    ELSE 0

(* One pass of the loop over product_ids: the product with its growth_rate *)
RisingEntry(p, start_time) ==
    to_dict(p) @@ [growth_rate |-> GrowthRate(HistoryQuery(p.product_id, start_time))]

GrowthBefore(a, b) == a.growth_rate > b.growth_rate

(* The rising ranking over the products that have a history in the window *)
get_rising_products_with_history(platform, category, days, limit, fault) ==
    IF fault = "session" THEN Raised
    ELSE IF fault = "query" THEN Returned(<<>>)
    ELSE LET Match(p) == /\ PlatformFilterLower(p, platform) /\ CategoryFilter(p, category)
                         /\ HistoryQuery(p.product_id, WindowStart(days)) # <<>>
             matching == SelectSeq(products, Match)
             products_with_growth == [i \in 1..Len(matching) |-> RisingEntry(matching[i], WindowStart(days))]
         IN  Returned(AddRank(Take(StableSort(products_with_growth, GrowthBefore), limit)))

(* sales_volume is NULL in a product_history row *)
NoSales == -1

(* One pass of the loop raises, and its except clause goes on to the next  *)
(* product_id: the history query of the pass fails (fault "history" fails  *)
(* the one of product 1), or first_record.sales_volume > 0 or              *)
(* last_record.sales_volume - first_record.sales_volume meets None.        *)
PassRaises(p, start_time, fault) ==
    LET hist == HistoryQuery(p.product_id, start_time)
    IN  \/ fault = "history" /\ p.product_id = 1
        \/ /\ Len(hist) > 1
           /\ \/ hist[1].sales_volume = NoSales
              \/ hist[1].sales_volume > 0 /\ hist[Len(hist)].sales_volume = NoSales

(* The rising ranking given up as soon as one pass of the loop raises *)
get_rising_products_aborting(platform, category, days, limit, fault) ==
    IF fault = "session" THEN Raised
    ELSE IF fault = "query" THEN Returned(<<>>)
    ELSE LET Match(p) == PlatformFilterLower(p, platform) /\ CategoryFilter(p, category)
             matching == SelectSeq(products, Match)
             products_with_growth == [i \in 1..Len(matching) |-> RisingEntry(matching[i], WindowStart(days))]
         IN  IF \E i \in DOMAIN matching : PassRaises(matching[i], WindowStart(days), fault)
             THEN Returned(<<>>)
             ELSE Returned(AddRank(Take(StableSort(products_with_growth, GrowthBefore), limit)))

get_rising_products(platform, category, days, limit, fault) ==
    IF fault = "session" THEN Raised
    ELSE IF fault = "query" THEN Returned(<<>>)
    ELSE LET Match(p) == PlatformFilterLower(p, platform) /\ CategoryFilter(p, category)
             Passes(p) == ~PassRaises(p, WindowStart(days), fault)
             matching == SelectSeq(SelectSeq(products, Match), Passes)
             products_with_growth == [i \in 1..Len(matching) |-> RisingEntry(matching[i], WindowStart(days))]
         IN  Returned(AddRank(Take(StableSort(products_with_growth, GrowthBefore), limit)))

Call_get_rising_products(platform, category, days, limit, fault) ==
    Call("get_rising_products", [platform |-> platform, category |-> category, days |-> days, limit |-> limit], fault,
         get_rising_products(platform, category, days, limit, fault))

(* A dict built by "if products: result[key] = products" over keys *)
NonEmptyMap(keys, f(_)) ==
    [k \in {x \in keys : f(x) # <<>>} |-> f(k)]

get_category_rankings(platform, limit_per_category, fault) ==
    IF fault = "session" THEN Raised
    ELSE IF fault = "query" THEN Returned(EmptyDict)
    ELSE LET categories == {products[i].category : i \in {j \in DOMAIN products : PlatformFilterLower(products[j], platform)}} \ {""}
             Hot(c) == get_hot_products(platform, c, limit_per_category, fault).out
         IN  Returned(NonEmptyMap(categories, Hot))

Call_get_category_rankings(platform, limit_per_category, fault) ==
    Call("get_category_rankings", [platform |-> platform, limit_per_category |-> limit_per_category], fault,
         get_category_rankings(platform, limit_per_category, fault))

(* float('inf') *)
Infinity == 999999999

(* The default price_ranges; the labels stand for the Chinese ones *)
DefaultPriceRanges ==
    << [min |-> 0, max |-> 50, label |-> "low"],
       [min |-> 50, max |-> 200, label |-> "mid"],
       [min |-> 200, max |-> 1000, label |-> "high"],
       [min |-> 1000, max |-> Infinity, label |-> "luxury"] >>

(* The range taken closed at max_price *)
InPriceRangeClosed(p, price_range) ==
    /\ p.price >= price_range.min
    /\ (price_range.max # Infinity => p.price <= price_range.max)

(* Product.price >= min_price, and Product.price < max_price unless inf *)
InPriceRange(p, price_range) ==
    /\ p.price >= price_range.min
    /\ (price_range.max # Infinity => p.price < price_range.max)

get_price_range_rankings(platform, price_ranges, limit_per_range, fault) ==
    IF fault = "session" THEN Raised
    ELSE IF fault = "query" THEN Returned(EmptyDict)
    ELSE LET ranges == IF price_ranges = <<>> THEN DefaultPriceRanges ELSE price_ranges
         IN
         \* price_range['min'], ['max'], ['label']: a missing key raises KeyError, caught by except
         IF \E i \in DOMAIN ranges : ~({"min", "max", "label"} \subseteq DOMAIN ranges[i]) THEN Returned(EmptyDict)
         ELSE
         LET Rows(r) == LET Match(p) == PlatformFilterLower(p, platform) /\ InPriceRange(p, r)
                        IN  AddRank(HotQuery(SelectSeq(products, Match), limit_per_range))
             \* a later range with the same label overwrites an earlier one
             LastWith(label) == CHOOSE i \in DOMAIN ranges :
                                   /\ ranges[i].label = label /\ Rows(ranges[i]) # <<>>
                                   /\ \A j \in DOMAIN ranges : (ranges[j].label = label /\ Rows(ranges[j]) # <<>>) => j <= i
             labels == {ranges[i].label : i \in {j \in DOMAIN ranges : Rows(ranges[j]) # <<>>}}
         IN  Returned([l \in labels |-> Rows(ranges[LastWith(l)])])

Call_get_price_range_rankings(platform, price_ranges, limit_per_range, fault) ==
    Call("get_price_range_rankings", [platform |-> platform, price_ranges |-> price_ranges, limit_per_range |-> limit_per_range], fault,
         get_price_range_rankings(platform, price_ranges, limit_per_range, fault))

(* platforms = ['tiktok', 'amazon', 'shopee'] *)
Platforms == {"tiktok", "amazon", "shopee"}

(* The comparison with a key for every platform, results or not *)
get_cross_platform_comparison_keeping_empty(category, limit, fault) ==
    IF get_hot_products("tiktok", category, limit, fault).raised
    THEN Returned(EmptyDict)
    ELSE Returned([pl \in Platforms |-> get_hot_products(pl, category, limit, fault).out])

get_cross_platform_comparison(category, limit, fault) ==
    IF get_hot_products("tiktok", category, limit, fault).raised
    THEN Returned(EmptyDict)   \* the exception of get_hot_products is caught here
    ELSE LET Hot(pl) == get_hot_products(pl, category, limit, fault).out
         IN  Returned(NonEmptyMap(Platforms, Hot))

Call_get_cross_platform_comparison(category, limit, fault) ==
    Call("get_cross_platform_comparison", [category |-> category, limit |-> limit], fault,
         get_cross_platform_comparison(category, limit, fault))

(* get_hot_products(platform=platform, category=category, limit=50) *)
HotSampleSize == 50

(* All keywords of the hot products, in order *)
RECURSIVE FlattenKeywords(_)
FlattenKeywords(hot) ==
    IF hot = <<>> THEN <<>> ELSE Head(hot).keywords \o FlattenKeywords(Tail(hot))

(* The distinct elements of s in order of first occurrence *)
Distinct(s) == SelectSeq([i \in DOMAIN s |-> [v |-> s[i], first |-> \A j \in 1..(i - 1) : s[j] # s[i]]], LAMBDA e : e.first)

(* pd.Series(keywords).value_counts(), then the limit most frequent *)
TopKeywords(keywords, limit) ==
    LET Count(k) == Cardinality({i \in DOMAIN keywords : keywords[i] = k})
        freq == [i \in DOMAIN Distinct(keywords) |-> [keyword |-> Distinct(keywords)[i].v, count |-> Count(Distinct(keywords)[i].v)]]
        top == Take(StableSort(freq, LAMBDA a, b : a.count > b.count), limit)
    IN  [k \in {top[i].keyword : i \in DOMAIN top} |-> Count(k)]

SeqMin(s) == CHOOSE x \in Range(s) : \A y \in Range(s) : x <= y

SeqMax(s) == CHOOSE x \in Range(s) : \A y \in Range(s) : x >= y

(* sum(values) / len(values), in hundredths (truncated) *)
Average100(s) == (SumSeq(s) * 100) \div Len(s)

(* min / max / average / median of the positive prices, zeros when none *)
PriceStats(prices) ==
    IF prices = <<>> THEN [min |-> 0, max |-> 0, average |-> 0, median |-> 0]
    ELSE [min |-> SeqMin(prices), max |-> SeqMax(prices), average |-> Average100(prices),
          median |-> StableSort(prices, LAMBDA a, b : a < b)[(Len(prices) \div 2) + 1]]

(* average / min / max of the positive ratings, zeros when none *)
RatingStats(ratings) ==
    IF ratings = <<>> THEN [average |-> 0, min |-> 0, max |-> 0]
    ELSE [average |-> Average100(ratings), min |-> SeqMin(ratings), max |-> SeqMax(ratings)]

get_popular_attributes(platform, category, limit, fault) ==
    LET hot == get_hot_products(platform, category, HotSampleSize, fault)
        hot_products == hot.out
        Field(f(_)) == [i \in DOMAIN hot_products |-> f(hot_products[i])]
        prices == SelectSeq(Field(LAMBDA p : p.price), LAMBDA x : x > 0)
        ratings == SelectSeq(Field(LAMBDA p : p.rating), LAMBDA x : x > 0)
    IN  IF hot.raised THEN Returned(EmptyDict)   \* caught by except
        ELSE IF hot_products = <<>> THEN Returned(EmptyDict)   \* if not hot_products: return {}
        ELSE Returned([top_keywords |-> TopKeywords(FlattenKeywords(hot_products), limit),
                       price_stats |-> PriceStats(prices),
                       rating_stats |-> RatingStats(ratings),
                       total_products_analyzed |-> Len(hot_products)])

Call_get_popular_attributes(platform, category, limit, fault) ==
    Call("get_popular_attributes", [platform |-> platform, category |-> category, limit |-> limit], fault,
         get_popular_attributes(platform, category, limit, fault))

(* rating / np.log1p(price), kept exactly as the pair (rating, 1 + price)  *)
(* that stands for rating / ln(base)                                       *)
ValueScore(rating, price) == [rating |-> rating, base |-> 1 + price]

(* a > b for value scores with rating > 0 and base > 1:                    *)
(*   ra / ln(ba) > rb / ln(bb)  iff  bb ^ ra > ba ^ rb                     *)
ValueGreater(a, b) == Pow(b.base, a.rating) > Pow(a.base, b.rating)

ValueBefore(a, b) == ValueGreater(a.value_score, b.value_score)

(* The filter that lets free products through *)
ValidForValueLoose(p) == p.price >= 0 /\ p.rating > 0

(* df = df[(df['price'] > 0) & (df['rating'] > 0)] *)
ValidForValue(p) == p.price > 0 /\ p.rating > 0

get_price_performance_ranking(platform, category, limit, fault) ==
    IF fault = "session" THEN Raised
    ELSE IF fault = "query" THEN Returned(<<>>)
    ELSE LET Match(p) == PlatformFilterExact(p, platform) /\ CategoryFilter(p, category)
             rows == SelectSeq(SelectSeq(products, Match), ValidForValue)
             df == [i \in DOMAIN rows |-> to_dict(rows[i]) @@ [value_score |-> ValueScore(rows[i].rating, rows[i].price)]]
         IN  Returned(AddRank(Take(StableSort(df, ValueBefore), limit)))

Call_get_price_performance_ranking(platform, category, limit, fault) ==
    Call("get_price_performance_ranking", [platform |-> platform, category |-> category, limit |-> limit], fault,
         get_price_performance_ranking(platform, category, limit, fault))

---------------------------------------------------------------------------
(* analytics/trend_analyzer.py *)

(* if platform: query.filter(ProductHistory.platform == platform.lower()) *)
(* and the product_id and category filters of get_sales_trend             *)
TrendRows(product_id, platform, category, days) ==
    {h \in history : /\ h.date >= WindowStart(days)
                     /\ (product_id = 0 \/ h.product_id = product_id)
                     /\ PlatformFilterLower(h, platform)
                     /\ CategoryFilter(h, category)}

(* The largest sales_volume of the rows instead of their sum *)
SalesOfLargest(S) ==
    IF S = {} THEN 0 ELSE (CHOOSE h \in S : \A g \in S : g.sales_volume <= h.sales_volume).sales_volume

SalesOf(S) == SumOver(S, [h \in S |-> h.sales_volume])

(* The growth of a series computed against its last value *)
SeriesGrowthOverLast(values) ==
    IF Len(values) > 1 /\ values[Len(values)] > 0
    THEN RoundDiv((values[Len(values)] - values[1]) * 10000, values[Len(values)])
    ELSE 0

(* round(((sales[-1] - sales[0]) / sales[0]) * 100, 2), in hundredths *)
SeriesGrowth(values) ==
    IF Len(values) > 1 /\ values[1] > 0
    THEN RoundDiv((values[Len(values)] - values[1]) * 10000, values[1])
    ELSE 0

(* The days on which the rows of S lie, ascending *)
DaysOf(S) == StableSort(SetToSeq({DayOf(h.date) : h \in S}), LAMBDA a, b : a < b)

EmptySalesTrend == [dates |-> <<>>, sales |-> <<>>, growth_rate |-> 0]

get_sales_trend(product_id, platform, category, days, fault) ==
    IF fault = "session" THEN Raised
    ELSE IF fault = "query" THEN Returned(EmptySalesTrend)
    ELSE LET rows == TrendRows(product_id, platform, category, days)
             results == StableSort(SetToSeq(rows), DateBefore)
             daily == DaysOf(rows)
         IN  IF rows = {} THEN Returned(EmptySalesTrend)
             ELSE IF product_id # 0
             THEN Returned([dates |-> [i \in DOMAIN results |-> DayOf(results[i].date)],
                            sales |-> [i \in DOMAIN results |-> results[i].sales_volume],
                            growth_rate |-> SeriesGrowth([i \in DOMAIN results |-> results[i].sales_volume])])
             ELSE LET sales == [i \in DOMAIN daily |-> SalesOf({h \in rows : DayOf(h.date) = daily[i]})]
                  IN  Returned([dates |-> daily, sales |-> sales, growth_rate |-> SeriesGrowth(sales)])

Call_get_sales_trend(product_id, platform, category, days, fault) ==
    Call("get_sales_trend", [product_id |-> product_id, platform |-> platform, category |-> category, days |-> days], fault,
         get_sales_trend(product_id, platform, category, days, fault))

(* The mean rating of the rows of S, in hundredths (truncated) *)
MeanRating100(S) == (SumOver(S, [h \in S |-> h.rating]) * 100) \div Cardinality(S)

RatingDirection(ratings) ==
    IF Len(ratings) > 1 /\ ratings[Len(ratings)] > ratings[1] THEN "rising"
    ELSE IF Len(ratings) > 1 /\ ratings[Len(ratings)] < ratings[1] THEN "falling"
    ELSE "stable"

EmptyRatingTrend == [dates |-> <<>>, ratings |-> <<>>, trend |-> "stable"]

get_rating_trend(product_id, platform, category, days, fault) ==
    IF fault = "session" THEN Raised
    ELSE IF fault = "query" THEN Returned(EmptyRatingTrend)
    ELSE LET rows == TrendRows(product_id, platform, category, days)
             results == StableSort(SetToSeq(rows), DateBefore)
             daily == DaysOf(rows)
         IN  IF rows = {} THEN Returned(EmptyRatingTrend)
             ELSE IF product_id # 0
             THEN Returned([dates |-> [i \in DOMAIN results |-> DayOf(results[i].date)],
                            ratings |-> [i \in DOMAIN results |-> results[i].rating * 100],
                            trend |-> RatingDirection([i \in DOMAIN results |-> results[i].rating * 100])])
             ELSE LET ratings == [i \in DOMAIN daily |-> MeanRating100({h \in rows : DayOf(h.date) = daily[i]})]
                  IN  Returned([dates |-> daily, ratings |-> ratings, trend |-> RatingDirection(ratings)])

Call_get_rating_trend(product_id, platform, category, days, fault) ==
    Call("get_rating_trend", [product_id |-> product_id, platform |-> platform, category |-> category, days |-> days], fault,
         get_rating_trend(product_id, platform, category, days, fault))

(* The rows of analyze_*: date >= start_timestamp, the platform compared   *)
(* as given, the category when given                                       *)
AnalyzeRows(platform, category, days) ==
    {h \in history : /\ h.date >= WindowStart(days)
                     /\ PlatformFilterExact(h, platform)
                     /\ CategoryFilter(h, category)}

(* pd.date_range(start=start_time.date(), end=end_time.date()) *)
DateRange(days) == DayOf(WindowStart(days)) .. DayOf(now)

(* analysis_period *)
AnalysisPeriod(days) == [start_date |-> DayOf(WindowStart(days)), end_date |-> DayOf(now)]

(* (last - first) / first * 100 if first > 0 else 0, in hundredths *)
PlainGrowth(first, last) ==
    IF first > 0 THEN RoundDiv((last - first) * 10000, first) ELSE 0

(* groupby(['date', column]).sum(), pivot, fillna(0), reindex over the      *)
(* date range, fillna(0): per column and day the summed sales, else 0       *)
SalesPivot(rows, columns, ColumnOf(_), days) ==
    [c \in columns |-> [d \in DateRange(days) |-> SalesOf({h \in rows : ColumnOf(h) = c /\ DayOf(h.date) = d})]]

analyze_sales_trend(platform, category, days, fault) ==
    IF fault = "session" THEN Raised
    ELSE IF fault = "query" THEN Returned(EmptyDict)
    ELSE LET rows == AnalyzeRows(platform, category, days)
             byCategory == platform # "" /\ category = ""
             single == platform # "" /\ category # ""
             ColumnOf(h) == IF single THEN "sales_volume" ELSE IF byCategory THEN h.category ELSE h.platform
             columns == IF single THEN {"sales_volume"} ELSE {ColumnOf(h) : h \in rows}
             pivot_df == SalesPivot(rows, columns, ColumnOf, days)
             total == [d \in DateRange(days) |-> SalesOf({h \in rows : DayOf(h.date) = d})]
         IN  Returned([trend_data |-> pivot_df @@ [total |-> total],
                       growth_rate |-> PlainGrowth(total[DayOf(WindowStart(days))], total[DayOf(now)]),
                       analysis_period |-> AnalysisPeriod(days)])

Call_analyze_sales_trend(platform, category, days, fault) ==
    Call("analyze_sales_trend", [platform |-> platform, category |-> category, days |-> days], fault,
         analyze_sales_trend(platform, category, days, fault))

(* top_categories = category_totals.head(5) *)
TopCategories == 5

(* The categories in the order of category_totals: by total sales,         *)
(* descending, equal totals in name order (the order groupby leaves)       *)
CategoriesByTotal(rows) ==
    LET cats == {h.category : h \in rows}
        Total(c) == SalesOf({h \in rows : h.category = c})
        byName == StableSort(SetToSeq(cats), NameBefore)
    IN  StableSort(byName, LAMBDA a, b : Total(a) > Total(b))

analyze_category_trend(platform, days, fault) ==
    IF fault = "session" THEN Raised
    ELSE IF fault = "query" THEN Returned(EmptyDict)
    ELSE LET rows == AnalyzeRows(platform, "", days)
             ordered == CategoriesByTotal(rows)
             top_categories == Range(Take(ordered, TopCategories))
             pivot_df == SalesPivot({h \in rows : h.category \in top_categories}, top_categories, LAMBDA h : h.category, days)
         IN  Returned([trend_data |-> pivot_df,
                       category_totals |-> [c \in Range(ordered) |-> SalesOf({h \in rows : h.category = c})],
                       growth_rates |-> [c \in top_categories |-> PlainGrowth(pivot_df[c][DayOf(WindowStart(days))], pivot_df[c][DayOf(now)])],
                       analysis_period |-> AnalysisPeriod(days)])

Call_analyze_category_trend(platform, days, fault) ==
    Call("analyze_category_trend", [platform |-> platform, days |-> days], fault,
         analyze_category_trend(platform, days, fault))

(* A missing value of a price series (NaN) *)
NaN == -1

(* The mean price of the rows of S, in hundredths (truncated) *)
MeanPrice100(S) == (SumOver(S, [h \in S |-> h.price]) * 100) \div Cardinality(S)

(* The mean of the values of f that are not NaN, NaN when there is none *)
MeanSkipNaN(f) ==
    LET valued == {k \in DOMAIN f : f[k] # NaN}
    IN  IF valued = {} THEN NaN ELSE SumOver(valued, f) \div Cardinality(valued)

(* groupby(['date', column]).mean(), pivot, fillna(0) when pivoted by a     *)
(* column, reindex over the date range, fillna(method='ffill')              *)
PricePivot(rows, columns, ColumnOf(_), days, zeroFill) ==
    LET observed == {DayOf(h.date) : h \in rows}
        Cell(c, d) == LET S == {h \in rows : ColumnOf(h) = c /\ DayOf(h.date) = d}
                      IN  IF S # {} THEN MeanPrice100(S) ELSE IF zeroFill THEN 0 ELSE NaN
        LastKnown(d) == {e \in observed : e <= d /\ \A x \in observed : x <= d => x <= e}
    IN  [c \in columns |-> [d \in DateRange(days) |->
            IF LastKnown(d) = {} THEN NaN ELSE Cell(c, CHOOSE e \in LastKnown(d) : TRUE)]]

analyze_price_trend(platform, category, days, fault) ==
    IF fault = "session" THEN Raised
    ELSE IF fault = "query" THEN Returned(EmptyDict)
    ELSE LET rows == AnalyzeRows(platform, category, days)
             single == platform # "" /\ category # ""
             byCategory == platform # "" /\ category = ""
             ColumnOf(h) == IF single THEN "average_price" ELSE IF byCategory THEN h.category ELSE h.platform
             columns == IF single THEN {"average_price"} ELSE {ColumnOf(h) : h \in rows}
             pivot_df == PricePivot(rows, columns, ColumnOf, days, ~single)
             average_price == IF single THEN pivot_df["average_price"]
                              ELSE [d \in DateRange(days) |-> MeanSkipNaN([c \in columns |-> pivot_df[c][d]])]
         IN  Returned([trend_data |-> pivot_df @@ [average_price |-> average_price],
                       price_change_rate |-> PlainGrowth(average_price[DayOf(WindowStart(days))], average_price[DayOf(now)]),
                       analysis_period |-> AnalysisPeriod(days)])

Call_analyze_price_trend(platform, category, days, fault) ==
    Call("analyze_price_trend", [platform |-> platform, category |-> category, days |-> days], fault,
         analyze_price_trend(platform, category, days, fault))

(* max(d.items(), key=lambda x: x[1]) over the keys in the order given,    *)
(* (None, 0) for an empty dict                                             *)
MaxItem(keys, d) ==
    IF keys = <<>> THEN [key |-> "None", value |-> 0]
    ELSE LET i == CHOOSE j \in DOMAIN keys : /\ \A k \in DOMAIN keys : d[keys[k]] <= d[keys[j]]
                                             /\ \A k \in 1..(j - 1) : d[keys[k]] < d[keys[j]]
         IN  [key |-> keys[i], value |-> d[keys[i]]]

(* The texts get_trend_summary (the second definition, which replaces the  *)
(* first) puts together, as the labels the thresholds select               *)
SummaryText(sales_trend, category_trend, price_trend) ==
    LET growth_keys == StableSort(SetToSeq(DOMAIN category_trend.growth_rates), NameBefore)
        total_keys == LET T(c) == category_trend.category_totals[c]
                      IN  StableSort(StableSort(SetToSeq(DOMAIN category_trend.category_totals), NameBefore), LAMBDA a, b : T(a) > T(b))
        fastest_growing == MaxItem(growth_keys, category_trend.growth_rates)
        top_category == MaxItem(total_keys, category_trend.category_totals)
        price_change == price_trend.price_change_rate
    IN  [sales_growth |-> sales_trend.growth_rate,
         top_category |-> top_category,
         fastest_growing |-> fastest_growing,
         price_change |-> price_change,
         market |-> IF sales_trend.growth_rate > 2000 THEN "strong growth"
                    ELSE IF sales_trend.growth_rate < -1000 THEN "decline" ELSE "stable",
         explosive |-> fastest_growing.value > 5000,
         prices |-> IF price_change > 1000 THEN "rising"
                    ELSE IF price_change < -1000 THEN "falling" ELSE "flat"]

get_trend_summary(platform, days, fault) ==
    LET sales_trend == analyze_sales_trend(platform, "", days, fault)
        category_trend == analyze_category_trend(platform, days, fault)
        price_trend == analyze_price_trend(platform, "", days, fault)
        parts == [sales_trend |-> sales_trend.out, category_trend |-> category_trend.out, price_trend |-> price_trend.out]
    IN  IF sales_trend.raised \/ category_trend.raised \/ price_trend.raised
        THEN Raised   \* nothing here catches the exception of analyze_*
        ELSE IF sales_trend.out = EmptyDict \/ category_trend.out = EmptyDict \/ price_trend.out = EmptyDict
        THEN Returned([error |-> "Failed to generate trend summary"] @@ parts)
        ELSE Returned([summary_text |-> SummaryText(sales_trend.out, category_trend.out, price_trend.out)] @@ parts)

Call_get_trend_summary(platform, days, fault) ==
    Call("get_trend_summary", [platform |-> platform, days |-> days], fault,
         get_trend_summary(platform, days, fault))

---------------------------------------------------------------------------
Init ==
    /\ products = <<>>
    /\ history = {}
    /\ now = 0
    /\ result = [op |-> "none"]


---------------------------------------------------------------------------
(* Spec: a small store that is written and aged while every operation of   *)
(* RankingEngine and TrendAnalyzer is called on it, with and without a     *)
(* store fault.                                                            *)

(* The products collected: the next product_id with one of these contents *)
CollectedProducts(product_id) ==
    { Product(product_id, "tiktok", "c1", 10, 300, 0, 0, <<"k1">>),
      Product(product_id, "tiktok", "c1", 20, 100, 5, 0, <<"k1", "k2">>) }

CollectedSales == {100, 300}

(* One collection a day *)
NoSnapshotToday == \A h \in history : h.date # now

WriteProduct ==
    /\ Len(products) < MaxProducts
    /\ \E row \in CollectedProducts(Len(products) + 1) : StoreProduct(row)

WriteSnapshot ==
    /\ NoSnapshotToday
    /\ \E i \in DOMAIN products, sales \in CollectedSales : StoreSnapshot(i, products[i].price, sales)

HotProducts == \E fault \in Faults : Call_get_hot_products("", "", 5, fault)

RisingProducts == \E fault \in Faults : Call_get_rising_products("", "", 1, 5, fault)

CategoryRankings == \E fault \in Faults : Call_get_category_rankings("", 5, fault)

PriceRangeRankings == \E fault \in Faults : Call_get_price_range_rankings("", <<>>, 5, fault)

CrossPlatformComparison == \E fault \in Faults : Call_get_cross_platform_comparison("", 5, fault)

PopularAttributes == \E fault \in Faults : Call_get_popular_attributes("", "", 5, fault)

PricePerformanceRanking == \E fault \in Faults : Call_get_price_performance_ranking("", "", 5, fault)

SalesTrend == \E product_id \in {0, 1}, fault \in Faults : Call_get_sales_trend(product_id, "", "", 1, fault)

RatingTrend == \E product_id \in {0, 1}, fault \in Faults : Call_get_rating_trend(product_id, "", "", 1, fault)

AnalyzeSalesTrend == \E fault \in Faults : Call_analyze_sales_trend("", "", 1, fault)

AnalyzeCategoryTrend == \E fault \in Faults : Call_analyze_category_trend("", 1, fault)

AnalyzePriceTrend == \E fault \in Faults : Call_analyze_price_trend("", "", 1, fault)

TrendSummary == \E fault \in Faults : Call_get_trend_summary("", 1, fault)

Next ==
    \/ WriteProduct
    \/ WriteSnapshot
    \/ Tick
    \/ HotProducts
    \/ RisingProducts
    \/ CategoryRankings
    \/ PriceRangeRankings
    \/ CrossPlatformComparison
    \/ PopularAttributes
    \/ PricePerformanceRanking
    \/ SalesTrend
    \/ RatingTrend
    \/ AnalyzeSalesTrend
    \/ AnalyzeCategoryTrend
    \/ AnalyzePriceTrend
    \/ TrendSummary

Spec == Init /\ [][Next]_vars

(* The last operation was op and returned without a store fault *)
Done(op) == result.op = op /\ result.fault = "none" /\ ~result.raised

(* C1: get_hot_products returns the matching products in non-increasing    *)
(* order of popularity_score, and no matching product the limit leaves out *)
(* has a greater popularity_score than a returned one.                     *)
HotSortedByPopularity ==
    Done("get_hot_products") =>
        LET out == result.out
            Matching(p) == PlatformFilterLower(p, result.args.platform) /\ CategoryFilter(p, result.args.category)
            returned == {out[i].product_id : i \in DOMAIN out}
        IN  /\ \A i \in 1..(Len(out) - 1) : out[i].popularity_score >= out[i + 1].popularity_score
            /\ \A j \in DOMAIN products : \A i \in DOMAIN out :
                   (Matching(products[j]) /\ products[j].product_id \notin returned)
                       => products[j].popularity_score <= out[i].popularity_score

(* The empty container of an operation: [] / {} / the zeroed series *)
IsEmptyContainer(op, out) ==
    CASE op \in {"get_hot_products", "get_rising_products", "get_price_performance_ranking"} -> out = <<>>
      [] op = "get_sales_trend" -> out = EmptySalesTrend
      [] op = "get_rating_trend" -> out = EmptyRatingTrend
      [] OTHER -> DOMAIN out = {}

(* C7: every public ranking / trend operation returns its empty container  *)
(* and raises nothing when the store fails at any step, whether while      *)
(* acquiring the session or while running a query.                         *)
DegradesOnStoreFailure ==
    (result.op \in {"get_hot_products", "get_rising_products", "get_category_rankings",
                    "get_price_range_rankings", "get_price_performance_ranking", "get_sales_trend",
                    "get_rating_trend", "analyze_sales_trend", "analyze_category_trend",
                    "analyze_price_trend"}
     /\ result.fault # "none")
        => (~result.raised /\ IsEmptyContainer(result.op, result.out))

(* Every value of a series (a map from days) is 0 or missing *)
ZeroSeries(f) == \A d \in DOMAIN f : f[d] \in {0, NaN}

(* C8: on an empty store get_hot_products and get_rising_products return   *)
(* [], get_popular_attributes returns empty keyword data with zeroed price *)
(* and rating stats, get_trend_summary returns an empty / zeroed           *)
(* structure, and none of them raises.                                     *)
EmptyStoreResults ==
    (products = <<>> /\ history = {} /\ result.op # "none" /\ result.fault = "none") =>
        /\ ~result.raised
        /\ result.op \in {"get_hot_products", "get_rising_products"} => result.out = <<>>
        /\ result.op = "get_popular_attributes" =>
               /\ {"top_keywords", "price_stats", "rating_stats"} \subseteq DOMAIN result.out
               /\ DOMAIN result.out.top_keywords = {}
               /\ result.out.price_stats = [min |-> 0, max |-> 0, average |-> 0, median |-> 0]
               /\ result.out.rating_stats = [average |-> 0, min |-> 0, max |-> 0]
        /\ result.op = "get_trend_summary" =>
               \A part \in {"sales_trend", "category_trend", "price_trend"} :
                   \/ DOMAIN result.out[part] = {}
                   \/ \A c \in DOMAIN result.out[part].trend_data : ZeroSeries(result.out[part].trend_data[c])

---------------------------------------------------------------------------
(* SpecRising: products of several platforms whose sales are collected     *)
(* once a day, and the rising ranking called over windows of one and two   *)
(* days.                                                                   *)

PlatformOf(product_id) ==
    CASE product_id % 3 = 1 -> "tiktok" [] product_id % 3 = 2 -> "amazon" [] OTHER -> "shopee"

RisingCatalog(product_id) ==
    Product(product_id, PlatformOf(product_id), CategoryName(product_id), 10, 0, 0, 0, <<>>)

RisingSales == {0, 100, 150, 300}

RisingArgs ==
    { [platform |-> "", days |-> 1, limit |-> 5], [platform |-> "", days |-> 2, limit |-> 5],
      [platform |-> "TikTok", days |-> 2, limit |-> 5], [platform |-> "", days |-> 2, limit |-> 1] }

RisingWriteProduct ==
    /\ Len(products) < MaxProducts
    /\ StoreProduct(RisingCatalog(Len(products) + 1))

RisingWriteSnapshot ==
    /\ NoSnapshotToday
    /\ \E i \in DOMAIN products, sales \in RisingSales : StoreSnapshot(i, products[i].price, sales)

RisingCall ==
    \E a \in RisingArgs : Call_get_rising_products(a.platform, "", a.days, a.limit, "none")

NextRising ==
    \/ RisingWriteProduct
    \/ RisingWriteSnapshot
    \/ Tick
    \/ RisingCall

SpecRising == Init /\ [][NextRising]_vars

(* The snapshots of a product dated inside the window of the last call *)
InWindow(product_id) ==
    {h \in history : h.product_id = product_id /\ h.date >= result.now - result.args.days}

Earliest(S) == CHOOSE h \in S : \A g \in S : h.date <= g.date

Latest(S) == CHOOSE h \in S : \A g \in S : h.date >= g.date

(* The products matching the filter of the last call *)
MatchingIds ==
    {products[j].product_id : j \in {k \in DOMAIN products :
        PlatformFilterLower(products[k], result.args.platform) /\ CategoryFilter(products[k], result.args.category)}}

Abs(x) == IF x < 0 THEN -x ELSE x

(* C2 (as stated): every entry of get_rising_products has growth_rate      *)
(* exactly (last.sales_volume - first.sales_volume) / first.sales_volume   *)
(* * 100 over its earliest and latest snapshots in the window, and 0 when  *)
(* first.sales_volume is 0.                                                *)
RisingGrowthExact ==
    Done("get_rising_products") =>
        \A i \in DOMAIN result.out :
            LET S == InWindow(result.out[i].product_id)
                first == Earliest(S)
                last == Latest(S)
                growth_rate == result.out[i].growth_rate
            IN  S # {} =>
                    IF first.sales_volume = 0 THEN growth_rate = 0
                    ELSE growth_rate * first.sales_volume = (last.sales_volume - first.sales_volume) * 10000

(* C2 (amended): every entry of get_rising_products has growth_rate equal  *)
(* to (last.sales_volume - first.sales_volume) / first.sales_volume * 100  *)
(* rounded to two decimal places (at most half a hundredth away), and 0    *)
(* when first.sales_volume is 0.                                           *)
RisingGrowthRounded ==
    Done("get_rising_products") =>
        \A i \in DOMAIN result.out :
            LET S == InWindow(result.out[i].product_id)
                first == Earliest(S)
                last == Latest(S)
                growth_rate == result.out[i].growth_rate
            IN  S # {} =>
                    IF first.sales_volume = 0 THEN growth_rate = 0
                    ELSE 2 * Abs(growth_rate * first.sales_volume - (last.sales_volume - first.sales_volume) * 10000)
                             <= first.sales_volume

(* C2 witness: a product with snapshots 100, 150, 300 in the window is     *)
(* returned with growth_rate 200.00.                                       *)
RisingGrowthExample ==
    /\ Done("get_rising_products")
    /\ \E i \in DOMAIN result.out :
           /\ {h.sales_volume : h \in InWindow(result.out[i].product_id)} = {100, 150, 300}
           /\ Earliest(InWindow(result.out[i].product_id)).sales_volume = 100
           /\ Latest(InWindow(result.out[i].product_id)).sales_volume = 300
           /\ result.out[i].growth_rate = 20000

(* C3: get_rising_products never drops a product for lack of history: a    *)
(* returned product with zero or one snapshot in the window, or with equal *)
(* first and last sales_volume, has growth_rate 0, and when limit is at    *)
(* least the number of matching products the result holds every matching   *)
(* product (once).                                                         *)
RisingKeepsProductsWithoutHistory ==
    Done("get_rising_products") =>
        /\ \A i \in DOMAIN result.out :
               LET S == InWindow(result.out[i].product_id)
               IN  (Cardinality(S) <= 1 \/ Earliest(S).sales_volume = Latest(S).sales_volume)
                       => result.out[i].growth_rate = 0
        /\ result.args.limit >= Cardinality(MatchingIds) =>
               /\ {result.out[i].product_id : i \in DOMAIN result.out} = MatchingIds
               /\ Len(result.out) = Cardinality(MatchingIds)

(* C3 witness: the result holds a product without any snapshot in the      *)
(* window next to one whose sales grew.                                    *)
RisingWithoutHistoryReturned ==
    /\ Done("get_rising_products")
    /\ \E i, j \in DOMAIN result.out :
           /\ InWindow(result.out[i].product_id) = {}
           /\ result.out[i].growth_rate = 0
           /\ result.out[j].growth_rate > 0

---------------------------------------------------------------------------
(* SpecPrice: products priced on and around the boundaries of the default  *)
(* price ranges, and the price range ranking called on them.               *)

PriceSamples == {-1, 0, 49, 50, 199, 200, 999, 1000, 1001}

PriceArgs ==
    { [platform |-> "", limit_per_range |-> 5], [platform |-> "TikTok", limit_per_range |-> 5],
      [platform |-> "", limit_per_range |-> 1] }

PriceWriteProduct ==
    /\ Len(products) < MaxProducts
    /\ \E price \in PriceSamples :
           StoreProduct(Product(Len(products) + 1, PlatformOf(Len(products) + 1), "c1", price, 100, 4, 10, <<>>))

PriceCall ==
    \E a \in PriceArgs : Call_get_price_range_rankings(a.platform, <<>>, a.limit_per_range, "none")

NextPrice ==
    \/ PriceWriteProduct
    \/ PriceCall

SpecPrice == Init /\ [][NextPrice]_vars

(* The labels under which a product is listed in the last result *)
BucketsOf(product_id) ==
    {l \in DOMAIN result.out : \E i \in DOMAIN result.out[l] : result.out[l][i].product_id = product_id}

(* The default range that carries a label *)
RangeOfLabel(l) == CHOOSE i \in DOMAIN DefaultPriceRanges : DefaultPriceRanges[i].label = l

(* C4: with the default ranges (and limit_per_range >= store size) every   *)
(* matching product with price >= 0 is listed in exactly one bucket, whose *)
(* half-open interval [min, max) holds its price; a price equal to a       *)
(* boundary 50, 200 or 1000 is listed in the bucket whose min is that      *)
(* price; no product is listed in two buckets.                             *)
PriceRangesPartition ==
    (Done("get_price_range_rankings") /\ result.args.price_ranges = <<>>
     /\ result.args.limit_per_range >= Len(products)) =>
        \A j \in DOMAIN products :
            LET p == products[j]
                buckets == BucketsOf(p.product_id)
            IN  /\ Cardinality(buckets) <= 1
                /\ (p.price >= 0 /\ PlatformFilterLower(p, result.args.platform)) => Cardinality(buckets) = 1
                /\ \A l \in buckets :
                       LET i == RangeOfLabel(l)
                       IN  /\ DefaultPriceRanges[i].min <= p.price
                           /\ i < Len(DefaultPriceRanges) => p.price < DefaultPriceRanges[i].max
                           /\ p.price \in {50, 200, 1000} => DefaultPriceRanges[i].min = p.price

(* C4 witness: a product priced 50 is listed under the range that starts   *)
(* at 50 while a product priced 49 is listed under the range below.        *)
PriceBoundaryListed ==
    /\ Done("get_price_range_rankings")
    /\ \E i, j \in DOMAIN products :
           /\ products[i].price = 50 /\ BucketsOf(products[i].product_id) = {"mid"}
           /\ products[j].price = 49 /\ BucketsOf(products[j].product_id) = {"low"}

---------------------------------------------------------------------------
(* SpecValue: products with small prices and ratings, some of them zero,   *)
(* and the price performance ranking called on them.                       *)

ValuePrices == {0, 1, 3, 7}

ValueRatings == {0, 2, 5}

ValueArgs ==
    { [platform |-> "", limit |-> 5], [platform |-> "tiktok", limit |-> 5],
      [platform |-> "TikTok", limit |-> 5], [platform |-> "", limit |-> 1] }

ValueWriteProduct ==
    /\ Len(products) <= MaxProducts
    /\ \E price \in ValuePrices, rating \in ValueRatings :
           StoreProduct(Product(Len(products) + 1, PlatformOf(Len(products) + 1), "c1", price, 100, rating, 10, <<>>))

ValueCall ==
    \E a \in ValueArgs : Call_get_price_performance_ranking(a.platform, "", a.limit, "none")

NextValue ==
    \/ ValueWriteProduct
    \/ ValueCall

SpecValue == Init /\ [][NextValue]_vars

(* The stored product with a product_id *)
ProductOf(product_id) == products[CHOOSE j \in DOMAIN products : products[j].product_id = product_id]

(* C5: get_price_performance_ranking returns, up to limit, exactly the     *)
(* products passing the filter that have price > 0 and rating > 0, each    *)
(* once and carrying value_score = rating / ln(1 + price), in              *)
(* non-increasing order of value_score; a product with price <= 0 or       *)
(* rating <= 0 is never returned.                                          *)
ValueRankingExact ==
    Done("get_price_performance_ranking") =>
        LET out == result.out
            Passing == {j \in DOMAIN products :
                           /\ result.args.platform = "" \/ products[j].platform = result.args.platform
                           /\ products[j].price > 0 /\ products[j].rating > 0}
            ids == {out[i].product_id : i \in DOMAIN out}
        IN  /\ ids \subseteq {products[j].product_id : j \in Passing}
            /\ Len(out) = Min(result.args.limit, Cardinality(Passing))
            /\ Cardinality(ids) = Len(out)
            /\ \A i \in DOMAIN out :
                   LET p == ProductOf(out[i].product_id)
                   IN  out[i].value_score = [rating |-> p.rating, base |-> 1 + p.price]
            \* ra / ln(1 + pa) >= rb / ln(1 + pb)  iff  (1 + pb) ^ ra >= (1 + pa) ^ rb
            /\ \A i \in 1..(Len(out) - 1) :
                   Pow(1 + out[i + 1].price, out[i].rating) >= Pow(1 + out[i].price, out[i + 1].rating)

(* C5 witness: a product with price 0 or rating 0 is left out while two    *)
(* products of different value are returned, the better one first.         *)
ValueRankingLeavesOut ==
    /\ Done("get_price_performance_ranking")
    /\ Len(result.out) = 2
    /\ Pow(1 + result.out[2].price, result.out[1].rating) > Pow(1 + result.out[1].price, result.out[2].rating)
    /\ \E j \in DOMAIN products :
           /\ products[j].price = 0 \/ products[j].rating = 0
           /\ \A i \in DOMAIN result.out : result.out[i].product_id # products[j].product_id

---------------------------------------------------------------------------
(* SpecScore: products stored with sales, ratings and review counts below, *)
(* at and above the caps of the popularity score.                          *)

ScoreSales == {0, 500, 1000, 2000}

ScoreRatings == {0, 3, 5}

ScoreReviews == {0, 250, 500, 600}

ScoreWriteProduct ==
    /\ Len(products) < MaxProducts
    /\ \E sales_volume \in ScoreSales, rating \in ScoreRatings, reviews_count \in ScoreReviews :
           StoreProduct(Product(Len(products) + 1, "tiktok", "c1", 10, sales_volume, rating, reviews_count, <<>>))

ScoreCall == Call_get_hot_products("", "", 5, "none")

NextScore ==
    \/ ScoreWriteProduct
    \/ ScoreCall

SpecScore == Init /\ [][NextScore]_vars

(* C6: the popularity_score of every product is                            *)
(* min(sales_volume/1000, 1)*60 + (rating/5)*25 + min(reviews_count/500,   *)
(* 1)*15 (here in hundredths), lies in [0, 100], and does not decrease     *)
(* when one of sales_volume, rating, reviews_count grows and the other two *)
(* stay.                                                                   *)
PopularityScoreBounded ==
    \A i \in DOMAIN products :
        LET p == products[i]
        IN  /\ p.popularity_score =
                   (IF p.sales_volume >= 1000 THEN 6000 ELSE p.sales_volume * 6)
                   + p.rating * 500
                   + (IF p.reviews_count >= 500 THEN 1500 ELSE p.reviews_count * 3)
            /\ p.popularity_score >= 0
            /\ p.popularity_score <= 10000
            /\ \A j \in DOMAIN products :
                   LET q == products[j]
                       Same(f) == p[f] = q[f]
                       Fields == {"sales_volume", "rating", "reviews_count"}
                   IN  (\E f \in Fields : p[f] <= q[f] /\ \A g \in Fields \ {f} : Same(g))
                           => p.popularity_score <= q.popularity_score

(* C6 witness: a product above both caps with the best rating scores 100,  *)
(* next to a product that differs from it only by a sales_volume at the    *)
(* cap and scores the same.                                                *)
PopularityScoreCapped ==
    \E i, j \in DOMAIN products :
        /\ products[i].sales_volume = 2000 /\ products[i].rating = 5 /\ products[i].reviews_count = 600
        /\ products[i].popularity_score = 10000
        /\ products[j].sales_volume = 1000 /\ products[j].rating = 5 /\ products[j].reviews_count = 600
        /\ products[j].popularity_score = 10000

---------------------------------------------------------------------------
(* SpecCategories: one product per category, each with at most one         *)
(* snapshot, and the category trend analysed over them.                    *)

CategorySales == {1, 2}

CategoryWriteProduct ==
    /\ Len(products) < NumCategories
    /\ StoreProduct(Product(Len(products) + 1, "tiktok", CategoryName(Len(products) + 1), 10, 0, 0, 0, <<>>))

(* The snapshot of the product stored last *)
CategoryWriteSnapshot ==
    /\ products # <<>>
    /\ \E sales \in CategorySales : StoreSnapshot(Len(products), 10, sales)

CategoryCall ==
    \E platform \in {"", "tiktok"} : Call_analyze_category_trend(platform, 1, "none")

NextCategories ==
    \/ CategoryWriteProduct
    \/ CategoryWriteSnapshot
    \/ CategoryCall

SpecCategories == Init /\ [][NextCategories]_vars

(* C10: analyze_category_trend keeps only the 5 categories with the        *)
(* largest total sales in the window: a category outside the top 5 is      *)
(* absent from category_totals, from trend_data and from growth_rates.     *)
CategoryTrendKeepsTopFive ==
    Done("analyze_category_trend") =>
        LET out == result.out
            rows == {h \in history : h.date >= result.now - result.args.days
                                     /\ (result.args.platform = "" \/ h.platform = result.args.platform)}
            Total(c) == SalesOf({h \in rows : h.category = c})
            cats == {h.category : h \in rows}
            \* the categories that at least five others beat
            Outside(c) == Cardinality({d \in cats \ {c} : Total(d) > Total(c)}) >= 5
        IN  /\ Cardinality(DOMAIN out.category_totals) <= 5
            /\ \A c \in cats : Outside(c) =>
                   /\ c \notin DOMAIN out.category_totals
                   /\ c \notin DOMAIN out.trend_data
                   /\ c \notin DOMAIN out.growth_rates

---------------------------------------------------------------------------
(* SpecRepeat: a store that is written and aged while every operation is   *)
(* called on it, again and again.  A write to the store resets result, so  *)
(* a result.op other than "none" is the outcome of a call made on the      *)
(* store as it is now.                                                     *)

RepeatCatalog(product_id) ==
    Product(product_id, PlatformOf(product_id), CategoryName(product_id), 10 * product_id, 100 * product_id,
            product_id % 6, 10 * product_id, <<"k1">>)

RepeatWriteProduct ==
    /\ Len(products) < MaxProducts
    /\ StoreProduct(RepeatCatalog(Len(products) + 1))

(* The sales of the first product vary, the others report the same *)
RepeatWriteSnapshot ==
    /\ NoSnapshotToday
    /\ \E i \in DOMAIN products :
           \E sales \in (IF i = 1 THEN CollectedSales ELSE {100}) : StoreSnapshot(i, products[i].price, sales)

RepeatCall ==
    \/ Call_get_hot_products("", "", 5, "none")
    \/ Call_get_rising_products("", "", 1, 5, "none")
    \/ Call_get_category_rankings("", 5, "none")
    \/ Call_get_price_range_rankings("", <<>>, 5, "none")
    \/ Call_get_cross_platform_comparison("", 5, "none")
    \/ Call_get_popular_attributes("", "", 5, "none")
    \/ Call_get_price_performance_ranking("", "", 5, "none")
    \/ Call_get_sales_trend(0, "", "", 1, "none")
    \/ Call_get_rating_trend(0, "", "", 1, "none")
    \/ Call_analyze_sales_trend("", "", 1, "none")
    \/ Call_analyze_category_trend("", 1, "none")
    \/ Call_analyze_price_trend("", "", 1, "none")
    \/ Call_get_trend_summary("", 1, "none")

NextRepeat ==
    \/ RepeatWriteProduct
    \/ RepeatWriteSnapshot
    \/ Tick
    \/ RepeatCall

SpecRepeat == Init /\ [][NextRepeat]_vars

(* The operations whose output carries no analysis_period of its own *)
UndatedOps ==
    {"get_hot_products", "get_rising_products", "get_category_rankings", "get_price_range_rankings",
     "get_cross_platform_comparison", "get_popular_attributes", "get_price_performance_ranking",
     "get_sales_trend", "get_rating_trend"}

---------------------------------------------------------------------------
(* SpecFill: two products of different platforms and categories, each      *)
(* collected on some days and not on others, and the analyses called over  *)
(* a window of two days.                                                   *)

(* A product is collected today, with the price and sales it always shows *)
FillWriteSnapshot ==
    \E i \in DOMAIN products : StoreSnapshot(i, products[i].price, products[i].sales_volume)

FillCall ==
    \/ Call_analyze_sales_trend("", "", 2, "none")
    \/ Call_analyze_sales_trend("tiktok", "", 2, "none")
    \/ Call_analyze_category_trend("", 2, "none")
    \/ Call_analyze_price_trend("", "", 2, "none")

NextFill ==
    \/ RepeatWriteProduct
    \/ FillWriteSnapshot
    \/ Tick
    \/ FillCall

SpecFill == Init /\ [][NextFill]_vars

(* The calendar days of the window of the last call *)
WindowDays == (result.now - result.args.days) .. result.now

(* The snapshots the last analysis read: inside the window, of the         *)
(* platform asked for                                                      *)
AnalysedRows ==
    {h \in history : /\ h.date >= result.now - result.args.days
                     /\ (result.args.platform = "" \/ h.platform = result.args.platform)}

(* The rows of a column of trend_data of the last analysis *)
ColumnRows(op, c) ==
    IF c = "total" THEN AnalysedRows
    ELSE IF op = "analyze_category_trend" \/ result.args.platform # ""
    THEN {h \in AnalysedRows : h.category = c}
    ELSE {h \in AnalysedRows : h.platform = c}

(* C11: in analyze_price_trend every per-scope daily mean price series is  *)
(* forward-filled: from the scope's first observation in the window on,    *)
(* each day shows the mean price of the scope's latest observed day, so no *)
(* such day shows 0 unless an observed mean price was 0.                   *)
PriceSeriesForwardFilled ==
    Done("analyze_price_trend") =>
        \A c \in DOMAIN result.out.trend_data \ {"average_price"} :
            \A d \in WindowDays :
                LET seen == {h \in ColumnRows("analyze_price_trend", c) : h.date <= d}
                    last == {h \in seen : \A g \in seen : g.date <= h.date}
                IN  seen # {} =>
                        result.out.trend_data[c][d]
                            = (SumOver(last, [h \in last |-> h.price]) * 100) \div Cardinality(last)

(* C12: analyze_sales_trend and analyze_category_trend return, for each    *)
(* column they keep, one value per calendar day of the window              *)
(* [now - days, now]: the sum of sales_volume of the column's snapshots of *)
(* that day, and 0 on a day without any.                                   *)
SalesSeriesZeroFilled ==
    (Done("analyze_sales_trend") \/ Done("analyze_category_trend")) =>
        \A c \in DOMAIN result.out.trend_data :
            /\ DOMAIN result.out.trend_data[c] = WindowDays
            /\ \A d \in WindowDays :
                   LET today == {h \in ColumnRows(result.op, c) : h.date = d}
                   IN  /\ today = {} => result.out.trend_data[c][d] = 0
                       /\ result.out.trend_data[c][d] = SumOver(today, [h \in today |-> h.sales_volume])

(* C12 witness: a sales trend whose tiktok column shows sales on the first *)
(* and last day of the window and 0 on the day between, and whose total    *)
(* adds the sales of two platforms on a day.                               *)
SalesSeriesGapShown ==
    /\ Done("analyze_sales_trend")
    /\ result.args.platform = ""
    /\ {"tiktok", "amazon"} \subseteq DOMAIN result.out.trend_data
    /\ result.out.trend_data["tiktok"][result.now - 2] > 0
    /\ result.out.trend_data["tiktok"][result.now - 1] = 0
    /\ result.out.trend_data["tiktok"][result.now] > 0
    /\ \E d \in WindowDays :
           /\ result.out.trend_data["amazon"][d] > 0
           /\ result.out.trend_data["total"][d] > result.out.trend_data["amazon"][d]

---------------------------------------------------------------------------
(* SpecSummary: the trend summary asked from TrendAnalyzer and through     *)
(* SystemOrchestrator, with and without a store fault.                     *)

(* business_logic/orchestrator.py: SystemOrchestrator.get_trend_summary    *)
(* returns {} when TrendAnalyzer.get_trend_summary raises                  *)
SystemOrchestrator_get_trend_summary(platform, days, fault) ==
    LET trend_summary == get_trend_summary(platform, days, fault)
    IN  IF trend_summary.raised THEN Returned(EmptyDict) ELSE trend_summary

Call_SystemOrchestrator_get_trend_summary(platform, days, fault) ==
    Call("SystemOrchestrator.get_trend_summary", [platform |-> platform, days |-> days], fault,
         SystemOrchestrator_get_trend_summary(platform, days, fault))

SummaryCall ==
    \E fault \in Faults :
        \/ Call_get_trend_summary("", 1, fault)
        \/ Call_SystemOrchestrator_get_trend_summary("", 1, fault)

NextSummary ==
    \/ RepeatWriteProduct
    \/ FillWriteSnapshot
    \/ Tick
    \/ SummaryCall

SpecSummary == Init /\ [][NextSummary]_vars

(* C13: get_trend_summary never raises to its caller; when a sub-analysis  *)
(* returns empty or fails the result carries an 'error' marker together    *)
(* with the three sub-results, and when all three succeed it carries no    *)
(* 'error' marker but summary_text and the three sub-results.              *)
SummaryDegradesGracefully ==
    result.op \in {"get_trend_summary", "SystemOrchestrator.get_trend_summary"} =>
        /\ ~result.raised
        /\ {"sales_trend", "category_trend", "price_trend"} \subseteq DOMAIN result.out
        /\ result.fault # "none" => "error" \in DOMAIN result.out
        /\ result.fault = "none" => ("error" \notin DOMAIN result.out /\ "summary_text" \in DOMAIN result.out)

---------------------------------------------------------------------------
(* storage/database.py: DatabaseManager.save_product *)

(* Python's None *)
None == "None"

(* session.rollback(): nothing of the session reaches the tables *)
Rollback(r) == [products |-> products, history |-> history, r |-> r]

(* save_product with the product row committed before the call fails *)
save_product_committing_product(product_data, fault) ==
    IF fault = "session" THEN Rollback(Raised)
    ELSE IF product_data.product_id = 0 \/ product_data.platform = "" THEN Rollback(Returned(None))
    ELSE IF fault = "query" THEN Rollback(Returned(None))
    ELSE IF \E i \in DOMAIN products : products[i].product_id = product_data.product_id
    THEN Rollback(Returned(None))
    ELSE [products |-> Append(products, Product(product_data.product_id, product_data.platform,
                                                product_data.category, product_data.price,
                                                product_data.sales_volume, product_data.rating,
                                                product_data.reviews_count, product_data.keywords)),
          history |-> history, r |-> Returned(None)]

(* save_product(product_data): the tables it leaves and what it returns.   *)
(* The module never imports time, so time.time() raises NameError in both  *)
(* branches before any commit; except rolls back and returns None.  When   *)
(* Session() itself raises, session.rollback() in the except clause and    *)
(* session.close() in the finally clause raise UnboundLocalError.          *)
save_product(product_data, fault) ==
    IF fault = "session" THEN Rollback(Raised)
    ELSE IF product_data.product_id = 0 \/ product_data.platform = "" THEN Rollback(Returned(None))
    ELSE IF fault = "query" THEN Rollback(Returned(None))
    ELSE LET existing_product ==
                 {i \in DOMAIN products : products[i].product_id = product_data.product_id}
         IN  IF existing_product # {}
             THEN (* the fields are set on the row, then line 136 raises *)
                  Rollback(Returned(None))
             ELSE (* the row is built, then line 161 raises *)
                  Rollback(Returned(None))

Call_save_product(product_data, fault) ==
    LET saved == save_product(product_data, fault)
    IN  /\ result' = [op |-> "save_product", args |-> product_data, fault |-> fault, now |-> now,
                      raised |-> saved.r.raised, out |-> saved.r.out,
                      repeated |-> SameCall("save_product", product_data, fault)]
        /\ products' = saved.products
        /\ history' = saved.history
        /\ UNCHANGED now

---------------------------------------------------------------------------
(* SpecSave: products are handed to save_product, with and without their   *)
(* product_id and platform, on a store that also holds rows written        *)
(* elsewhere.                                                              *)

SavePlatforms == {"", "tiktok", "amazon"}

(* An enriched product as the orchestrator passes it on; popularity_score *)
(* is the enricher's                                                      *)
ProductData(product_id, platform, sales_volume) ==
    [product_id |-> product_id, platform |-> platform, category |-> "c1", price |-> 10,
     sales_volume |-> sales_volume, rating |-> 5, reviews_count |-> 0,
     popularity_score |-> Min(sales_volume, 5000) + 2500, keywords |-> <<"k1">>]

SaveProduct ==
    \E product_id \in 0 .. MaxProducts, platform \in SavePlatforms, sales \in CollectedSales, fault \in Faults :
        Call_save_product(ProductData(product_id, platform, sales), fault)

NextSave == RepeatWriteProduct \/ FillWriteSnapshot \/ Tick \/ SaveProduct

SpecSave == Init /\ [][NextSave]_vars

(* save_product has returned for a product that has its product_id and its *)
(* platform, on a store that answered                                      *)
Saved ==
    /\ result.op = "save_product"
    /\ result.fault = "none"
    /\ result.args.product_id # 0
    /\ result.args.platform # ""

RecordsOf(platform, product_id) ==
    {i \in DOMAIN products : products[i].platform = platform /\ products[i].product_id = product_id}

(* C14: once a product has been saved, the store holds exactly one product *)
(* record with its (platform, product_id), whatever other platforms hold   *)
(* under the same product_id.                                              *)
SavedProductIsOneRecord ==
    Saved => Cardinality(RecordsOf(result.args.platform, result.args.product_id)) = 1

(* The snapshot a save of product_data takes at time t *)
SnapshotOf(product_data, t) ==
    ProductHistory(product_data.product_id, product_data.platform, product_data.category, t,
                   product_data.price, product_data.sales_volume, product_data.rating,
                   product_data.reviews_count)

(* A step in which save_product is called and returns for a product that   *)
(* has its product_id and its platform                                     *)
SaveStep ==
    /\ result'.op = "save_product"
    /\ result'.fault = "none"
    /\ result'.args.product_id # 0
    /\ result'.args.platform # ""
    /\ now' = now

(* C16: every save_product call for a collected product adds exactly one   *)
(* snapshot, with the product's price, sales_volume, rating and            *)
(* reviews_count of that moment; no step changes or removes a snapshot     *)
(* that exists, and a snapshot that is added is dated no earlier than the  *)
(* ones before it.                                                         *)
SaveAppendsOneSnapshot ==
    [][/\ history \subseteq history'
       /\ \A h \in history' \ history : \A g \in history : g.date <= h.date
       /\ SaveStep => history' \ history = {SnapshotOf(result'.args, now)}]_vars

(* SpecAtomic: save_product against a store that takes one snapshot a day  *)
AtomicWriteSnapshot ==
    /\ NoSnapshotToday
    /\ \E i \in DOMAIN products : StoreSnapshot(i, products[i].price, products[i].sales_volume)

(* New sales of a product that is stored, or the first sales of one that   *)
(* is not                                                                  *)
AtomicSave ==
    \E product_id \in 0 .. MaxProducts, platform \in {"", "tiktok"}, fault \in Faults :
        Call_save_product(ProductData(product_id, platform, 300), fault)

NextAtomic == RepeatWriteProduct \/ AtomicWriteSnapshot \/ Tick \/ AtomicSave

SpecAtomic == Init /\ [][NextAtomic]_vars

---------------------------------------------------------------------------
(* SpecRace: two callers run save_product at once for one product_id that  *)
(* the store does not hold; each call advances statement by statement.     *)

(* RepeatWriteProduct stores the ids 1 .. MaxProducts *)
NewProductId == MaxProducts + 1

Saves == IF result.op = "race" THEN result.saves ELSE [c \in {1, 2} |-> [pc |-> "idle"]]

Saving(c) == Saves[c].pc \in {"session", "queried", "except"}

NoSaveInFlight == \A c \in {1, 2} : ~Saving(c)

(* session = self.Session(); product_id and platform are read *)
SaveOpensSession(c) ==
    /\ Saves[c].pc = "idle"
    /\ \E sales \in CollectedSales :
           result' = [op |-> "race",
                      saves |-> [Saves EXCEPT ![c] = [pc |-> "session",
                                                      data |-> ProductData(NewProductId, "tiktok", sales)]]]
    /\ UNCHANGED <<products, history, now>>

(* existing_product = session.query(Product).filter_by(product_id).first() *)
SaveQueriesExisting(c) ==
    /\ Saves[c].pc = "session"
    /\ result' = [op |-> "race",
                  saves |-> [Saves EXCEPT ![c] = [pc |-> "queried", data |-> @.data,
                                                  existing |-> \E i \in DOMAIN products :
                                                      products[i].product_id = @.data.product_id]]]
    /\ UNCHANGED <<products, history, now>>

(* collected_at = time.time(): the module has no name time, on the update  *)
(* path (line 136) as on the create path (line 161)                        *)
SaveReadsClock(c) ==
    /\ Saves[c].pc = "queried"
    /\ result' = [op |-> "race",
                  saves |-> [Saves EXCEPT ![c] = [pc |-> "except", data |-> @.data, existing |-> @.existing]]]
    /\ UNCHANGED <<products, history, now>>

(* except: session.rollback(); return None; finally: session.close() *)
SaveRollsBack(c) ==
    /\ Saves[c].pc = "except"
    /\ result' = [op |-> "race",
                  saves |-> [Saves EXCEPT ![c] = [pc |-> "returned", data |-> @.data, existing |-> @.existing,
                                                  out |-> None]]]
    /\ UNCHANGED <<products, history, now>>

RaceWriteProduct == NoSaveInFlight /\ RepeatWriteProduct

RaceWriteSnapshot == NoSaveInFlight /\ AtomicWriteSnapshot

NextRace ==
    \/ \E c \in {1, 2} : SaveOpensSession(c)
    \/ \E c \in {1, 2} : SaveQueriesExisting(c)
    \/ \E c \in {1, 2} : SaveReadsClock(c)
    \/ \E c \in {1, 2} : SaveRollsBack(c)
    \/ RaceWriteProduct
    \/ RaceWriteSnapshot
    \/ Tick

SpecRace == Init /\ [][NextRace]_vars

BothSavesReturned == \A c \in {1, 2} : Saves[c].pc = "returned"

(* C27: once two concurrent save_product calls for one new product_id have *)
(* both returned, the store holds exactly one Product record of that       *)
(* product_id and one snapshot of it for each call.                        *)
ConcurrentSavesKeepOneRecord ==
    BothSavesReturned =>
        /\ Cardinality({i \in DOMAIN products : products[i].product_id = NewProductId}) = 1
        /\ Cardinality({h \in history : h.product_id = NewProductId}) = 2

---------------------------------------------------------------------------
(* SpecConfig: the price range ranking called with price_ranges that are   *)
(* well formed, incomplete or empty, and the hot ranking called with       *)
(* time_range tokens, on products priced around the default boundaries.    *)

(* RankingEngine._get_time_threshold: the start of the time range, in days *)
_get_time_threshold(time_range) ==
    CASE time_range = "day" -> now - 1
      [] time_range = "week" -> now - 7
      [] time_range = "month" -> now - 30
      [] time_range = "year" -> now - 365
      [] OTHER -> now - 7

(* get_hot_products(platform, category, time_range, limit): the body never *)
(* reads time_range                                                        *)
get_hot_products_time_range(platform, category, time_range, limit, fault) ==
    get_hot_products(platform, category, limit, fault)

Call_get_hot_products_time_range(platform, category, time_range, limit, fault) ==
    Call("get_hot_products", [platform |-> platform, category |-> category, time_range |-> time_range, limit |-> limit], fault,
         get_hot_products_time_range(platform, category, time_range, limit, fault))

TimeRanges == {"day", "week", "month", "year"}

(* A price range is well formed when it has its three keys and min < max *)
ValidPriceRange(price_range) ==
    /\ {"min", "max", "label"} \subseteq DOMAIN price_range
    /\ price_range.min < price_range.max

ConfigPriceRanges ==
    { <<>>,
      << [min |-> 0, max |-> 100, label |-> "cheap"], [min |-> 100, max |-> Infinity, label |-> "dear"] >>,
      << [min |-> 0, max |-> 100, label |-> "cheap"], [min |-> 100, max |-> Infinity] >>,
      << [max |-> 100, label |-> "cheap"] >>,
      << [min |-> 0, label |-> "cheap"] >>,
      << [min |-> 200, max |-> 50, label |-> "cheap"] >>,
      << [min |-> 50, max |-> 50, label |-> "cheap"] >> }

ConfigPriceCall ==
    \E price_ranges \in ConfigPriceRanges : Call_get_price_range_rankings("", price_ranges, 5, "none")

ConfigHotCall ==
    \E time_range \in TimeRanges \cup {"fortnight", ""} :
        Call_get_hot_products_time_range("", "", time_range, 5, "none")

NextConfig == PriceWriteProduct \/ Tick \/ ConfigPriceCall \/ ConfigHotCall

SpecConfig == Init /\ [][NextConfig]_vars

(* C17: price_ranges with an entry that lacks min, max or label, or whose   *)
(* min is not below its max, give the result of the four default ranges,    *)
(* and a time_range token that is not supported gives the result and the    *)
(* threshold of 'week'.                                                     *)
ConfigurationFallsBack ==
    /\ (/\ Done("get_price_range_rankings")
        /\ \E i \in DOMAIN result.args.price_ranges : ~ValidPriceRange(result.args.price_ranges[i]))
           => result.out = get_price_range_rankings(result.args.platform, <<>>, result.args.limit_per_range, "none").out
    /\ (/\ Done("get_hot_products")
        /\ result.args.time_range \notin TimeRanges)
           => /\ result.out = get_hot_products_time_range(result.args.platform, result.args.category, "week",
                                                         result.args.limit, "none").out
              /\ _get_time_threshold(result.args.time_range) = _get_time_threshold("week")

---------------------------------------------------------------------------
(* SpecConcurrent: two callers run ranking and trend operations at the     *)
(* same time.  Each call opens its own session (self.db.Session()), runs   *)
(* its queries and computes its output, then closes the session and        *)
(* returns; the steps of the two callers interleave freely.  The store is  *)
(* written and the clock moves only while no call is running.  result      *)
(* holds, per caller, the position of its call and its output.             *)

Callers == {1, 2}

ConcurrentOps == {"get_hot_products", "get_rising_products", "get_sales_trend"}

(* What an operation computes on the store as it is *)
Evaluate(op) ==
    CASE op = "get_hot_products" -> get_hot_products("", "", 5, "none")
      [] op = "get_rising_products" -> get_rising_products("", "", 2, 5, "none")
      [] op = "get_sales_trend" -> get_sales_trend(0, "", "", 2, "none")

Idle == [pc |-> "idle"]

CallsInFlight == IF result.op = "concurrent" THEN result.calls ELSE [c \in Callers |-> Idle]

Running(c) == CallsInFlight[c].pc \in {"opened", "queried"}

Quiet == \A c \in Callers : ~Running(c)

(* session = self.db.Session() *)
OpenSession(c, op) ==
    /\ ~Running(c)
    /\ result' = [op |-> "concurrent", calls |-> [CallsInFlight EXCEPT ![c] = [pc |-> "opened", op |-> op]]]
    /\ UNCHANGED <<products, history, now>>

(* A query that consumes the oldest product it read *)
RunQueriesWithSideEffect(c) ==
    /\ CallsInFlight[c].pc = "opened"
    /\ result' = [op |-> "concurrent",
                  calls |-> [CallsInFlight EXCEPT ![c] = [pc |-> "queried", op |-> @.op,
                                                          out |-> Evaluate(@.op).out]]]
    /\ products' = IF products = <<>> THEN products ELSE Tail(products)
    /\ UNCHANGED <<history, now>>

(* The queries of the call run on the session and the output is built *)
RunQueries(c) ==
    /\ CallsInFlight[c].pc = "opened"
    /\ result' = [op |-> "concurrent",
                  calls |-> [CallsInFlight EXCEPT ![c] = [pc |-> "queried", op |-> @.op,
                                                          out |-> Evaluate(@.op).out]]]
    /\ UNCHANGED <<products, history, now>>

(* finally: session.close(), and the output goes to the caller *)
CloseSession(c) ==
    /\ CallsInFlight[c].pc = "queried"
    /\ result' = [op |-> "concurrent", calls |-> [CallsInFlight EXCEPT ![c].pc = "returned"]]
    /\ UNCHANGED <<products, history, now>>

ConcurrentWriteProduct == Quiet /\ RepeatWriteProduct

ConcurrentWriteSnapshot == Quiet /\ RepeatWriteSnapshot

(* The clock moves between calls; the callers' outputs are forgotten *)
ConcurrentTick ==
    /\ Quiet
    /\ now < MaxDay
    /\ now' = now + 1
    /\ result' = [op |-> "none"]
    /\ UNCHANGED <<products, history>>

NextConcurrent ==
    \/ ConcurrentWriteProduct
    \/ ConcurrentWriteSnapshot
    \/ ConcurrentTick
    \/ \E c \in Callers, op \in ConcurrentOps : OpenSession(c, op)
    \/ \E c \in Callers : RunQueries(c)
    \/ \E c \in Callers : CloseSession(c)

SpecConcurrent == Init /\ [][NextConcurrent]_vars

---------------------------------------------------------------------------
(* SpecRank: products of one platform and one category, and every ranking  *)
(* called on them with a limit below, at and above the number of products. *)

RankLimits == {0, 2, 5}

RankWriteProduct ==
    /\ Len(products) <= MaxProducts
    /\ \E sales \in CollectedSales, rating \in {0, 4} :
           StoreProduct(Product(Len(products) + 1, "tiktok", "c1", 10 * (Len(products) + 1), sales, rating, 10, <<>>))

RankCall ==
    \E limit \in RankLimits :
        \/ Call_get_hot_products("", "", limit, "none")
        \/ Call_get_rising_products("", "", 1, limit, "none")
        \/ Call_get_price_performance_ranking("", "", limit, "none")
        \/ Call_get_category_rankings("", limit, "none")
        \/ Call_get_price_range_rankings("", <<>>, limit, "none")
        \/ Call_get_cross_platform_comparison("", limit, "none")

NextRank == RankWriteProduct \/ RankCall

SpecRank == Init /\ [][NextRank]_vars

RankingOps == {"get_hot_products", "get_rising_products", "get_price_performance_ranking"}

GroupedRankingOps == {"get_category_rankings", "get_price_range_rankings", "get_cross_platform_comparison"}

(* The lists of the last result: the result itself, or its per-group lists *)
RankedLists ==
    IF result.op \in RankingOps THEN {result.out}
    ELSE IF result.op \in GroupedRankingOps THEN {result.out[k] : k \in DOMAIN result.out}
    ELSE {}

(* The limit the last call was given *)
LimitOf(args) ==
    IF "limit" \in DOMAIN args THEN args.limit
    ELSE IF "limit_per_category" \in DOMAIN args THEN args.limit_per_category
    ELSE args.limit_per_range

(* C19: in every list of a ranking, and in every per-group list of a        *)
(* grouped ranking, the entry at 0-based position i has rank i + 1, and     *)
(* the list has at most limit entries.                                      *)
RanksArePositions ==
    (result.op \in RankingOps \cup GroupedRankingOps /\ result.fault = "none" /\ ~result.raised) =>
        \A l \in RankedLists :
            /\ Len(l) <= LimitOf(result.args)
            /\ \A i \in DOMAIN l : l[i].rank = i

(* C19 witness: a category ranking whose list was cut to a limit of 2, out  *)
(* of three products of the category.                                       *)
RankedListTruncated ==
    /\ Done("get_category_rankings")
    /\ result.args.limit_per_category = 2
    /\ Len(products) = 3
    /\ \E c \in DOMAIN result.out : Len(result.out[c]) = 2 /\ result.out[c][2].rank = 2

---------------------------------------------------------------------------
(* SpecTies: the hot ranking on products whose ORDER BY keys tie.  The     *)
(* query orders by the key alone, so the order in which the database       *)
(* returns rows of equal key, and which of them a LIMIT keeps, is the      *)
(* database's choice: every order that is non-increasing in the key is a   *)
(* possible answer of query.all().                                         *)

(* The orders of rows that ORDER BY key DESC allows *)
HotOrders(rows) ==
    LET n == Len(rows)
        perms == {f \in [1..n -> 1..n] : \A i, j \in 1..n : f[i] = f[j] => i = j}
        ordered == {f \in perms : \A i, j \in 1..n : i < j => HotOrderKey(rows[f[i]]) >= HotOrderKey(rows[f[j]])}
    IN  {[i \in 1..n |-> rows[f[i]]] : f \in ordered}

(* The results get_hot_products can return on the store as it is *)
get_hot_products_results(platform, category, limit) ==
    LET Match(p) == PlatformFilterLower(p, platform) /\ CategoryFilter(p, category)
    IN  {Returned(AddRank(Take(rows, limit))) : rows \in HotOrders(SelectSeq(products, Match))}

TiesCall ==
    \E platform \in {"", "tiktok"}, category \in {"", "c1"}, limit \in RankLimits :
        \E r \in get_hot_products_results(platform, category, limit) :
            Call("get_hot_products", [platform |-> platform, category |-> category, limit |-> limit], "none", r)

NextTies == RankWriteProduct \/ TiesCall

SpecTies == Init /\ [][NextTies]_vars

(* C20: products whose ranking keys tie appear in the hot ranking in their *)
(* storage order (product_id counts the insertions).                       *)
HotTiesInStorageOrder ==
    Done("get_hot_products") =>
        \A i, j \in DOMAIN result.out :
            (i < j /\ HotOrderKey(result.out[i]) = HotOrderKey(result.out[j]))
                => result.out[i].product_id < result.out[j].product_id

---------------------------------------------------------------------------
(* SpecMalformed: products whose snapshots may lack their sales_volume,    *)
(* and the rising ranking called on them, with and without a failure of    *)
(* the history query of product 1.                                         *)

(* Product 1 is collected with or without its sales_volume, the others    *)
(* with sales that grow by the day                                        *)
MalformedSales(i) == IF i = 1 THEN {NoSales, 100} ELSE {100 * (now + 1)}

MalformedWriteSnapshot ==
    \E i \in DOMAIN products :
        \E sales \in MalformedSales(i) : StoreSnapshot(i, products[i].price, sales)

MalformedCall ==
    \E fault \in {"none", "history"} : Call_get_rising_products("", "", 2, 5, fault)

NextMalformed == RisingWriteProduct \/ MalformedWriteSnapshot \/ Tick \/ MalformedCall

SpecMalformed == Init /\ [][NextMalformed]_vars

(* The pass for a product fails in the last call: its history query was    *)
(* failed, or a sales_volume the growth needs is missing.                  *)
ProductFails(product_id) ==
    \/ result.fault = "history" /\ product_id = 1
    \/ /\ Cardinality(InWindow(product_id)) > 1
       /\ \/ Earliest(InWindow(product_id)).sales_volume = NoSales
          \/ /\ Earliest(InWindow(product_id)).sales_volume > 0
             /\ Latest(InWindow(product_id)).sales_volume = NoSales

(* The growth of a product whose pass does not fail, in hundredths *)
ExpectedGrowth(product_id) ==
    IF Cardinality(InWindow(product_id)) > 1 /\ Earliest(InWindow(product_id)).sales_volume > 0
    THEN RoundDiv((Latest(InWindow(product_id)).sales_volume - Earliest(InWindow(product_id)).sales_volume) * 10000,
                  Earliest(InWindow(product_id)).sales_volume)
    ELSE 0

(* C21: a product whose pass fails is left out of the rising ranking, and   *)
(* every other matching product is returned with its own growth_rate.       *)
RisingSkipsOnlyFailedProduct ==
    (result.op = "get_rising_products" /\ result.fault \in {"none", "history"}) =>
        /\ ~result.raised
        /\ {result.out[i].product_id : i \in DOMAIN result.out} = {id \in MatchingIds : ~ProductFails(id)}
        /\ \A i \in DOMAIN result.out : result.out[i].growth_rate = ExpectedGrowth(result.out[i].product_id)
        /\ Len(result.out) = Cardinality({id \in MatchingIds : ~ProductFails(id)})

(* C21 witness: one product was skipped for a snapshot without             *)
(* sales_volume, and the other is returned with the growth of its sales.   *)
RisingSkippedMalformed ==
    /\ result.op = "get_rising_products" /\ result.fault = "none"
    /\ \E id \in MatchingIds : ProductFails(id)
    /\ \E i \in DOMAIN result.out : result.out[i].growth_rate # 0

---------------------------------------------------------------------------
(* SpecGroups: products of two platforms, two categories and two price     *)
(* ranges, and the three grouped rankings called on them with a limit      *)
(* of 1 and of 5.                                                          *)

GroupWriteProduct ==
    /\ Len(products) < MaxProducts
    /\ \E platform \in {"tiktok", "amazon"}, category \in {"c1", "c2"}, price \in {10, 100} :
           StoreProduct(Product(Len(products) + 1, platform, category, price, 300 - 100 * Len(products), 4, 10, <<>>))

GroupCall ==
    \E platform \in {"", "TikTok"}, category \in {"", "c1"}, limit \in {1, 5} :
        \/ Call_get_category_rankings(platform, limit, "none")
        \/ Call_get_price_range_rankings(platform, <<>>, limit, "none")
        \/ Call_get_cross_platform_comparison(category, limit, "none")

NextGroups == GroupWriteProduct \/ GroupCall

SpecGroups == Init /\ [][NextGroups]_vars

(* The keys a grouped ranking can have *)
GroupKeys ==
    CASE result.op = "get_category_rankings" -> {products[i].category : i \in DOMAIN products}
      [] result.op = "get_price_range_rankings" -> {DefaultPriceRanges[i].label : i \in DOMAIN DefaultPriceRanges}
      [] result.op = "get_cross_platform_comparison" -> {"tiktok", "amazon", "shopee"}

(* Product p belongs to the group of key k in the last call *)
InGroup(p, k) ==
    CASE result.op = "get_category_rankings" ->
             p.category = k /\ (result.args.platform = "" \/ p.platform = Lower(result.args.platform))
      [] result.op = "get_price_range_rankings" ->
             /\ result.args.platform = "" \/ p.platform = Lower(result.args.platform)
             /\ p.price >= DefaultPriceRanges[RangeOfLabel(k)].min
             /\ p.price < DefaultPriceRanges[RangeOfLabel(k)].max
      [] result.op = "get_cross_platform_comparison" ->
             p.platform = k /\ (result.args.category = "" \/ p.category = result.args.category)

(* The hot ranking restricted to the group of key k *)
GroupHotRanking(k) ==
    LET Member(p) == InGroup(p, k)
    IN  AddRank(HotQuery(SelectSeq(products, Member), LimitOf(result.args)))

---------------------------------------------------------------------------
(* SpecSales: products of one platform and category, collected on some     *)
(* days and not on others, and the sales trend called for the whole        *)
(* store, for a platform and category, and for single products.            *)

(* The first product reports falling or rising sales, the others 200 *)
SalesSamples(i) == IF i = 1 THEN {100, 300} ELSE {200}

SalesWriteProduct ==
    /\ Len(products) < MaxProducts
    /\ StoreProduct(Product(Len(products) + 1, "tiktok", "c1", 10, 100, 4, 10, <<>>))

SalesWriteSnapshot ==
    \E i \in DOMAIN products :
        \E sales \in SalesSamples(i) : StoreSnapshot(i, products[i].price, sales)

SalesCall ==
    \/ Call_get_sales_trend(0, "", "", 2, "none")
    \/ Call_get_sales_trend(0, "TikTok", "c1", 1, "none")
    \/ \E product_id \in 1 .. MaxProducts : Call_get_sales_trend(product_id, "", "", 2, "none")

NextSales == SalesWriteProduct \/ SalesWriteSnapshot \/ Tick \/ SalesCall

SpecSales == Init /\ [][NextSales]_vars

(* The snapshots in the scope and window of the last get_sales_trend call *)
SalesScope ==
    {h \in history : /\ h.date >= result.now - result.args.days
                     /\ (result.args.product_id = 0 \/ h.product_id = result.args.product_id)
                     /\ (result.args.platform = "" \/ h.platform = Lower(result.args.platform))
                     /\ (result.args.category = "" \/ h.category = result.args.category)}

DaySum(day) ==
    LET S == {h \in SalesScope : h.date = day} IN SumOver(S, [h \in S |-> h.sales_volume])

(* One value per day that has data, in ascending date order, each the sum  *)
(* of the sales_volume of the day's snapshots in scope                     *)
SalesSeriesIsDailySum ==
    /\ Len(result.out.dates) = Len(result.out.sales)
    /\ {result.out.dates[i] : i \in DOMAIN result.out.dates} = {h.date : h \in SalesScope}
    /\ \A i, j \in DOMAIN result.out.dates : i < j => result.out.dates[i] < result.out.dates[j]
    /\ \A i \in DOMAIN result.out.sales : result.out.sales[i] = DaySum(result.out.dates[i])

(* C23 (as stated): get_sales_trend returns the daily sums of its scope in *)
(* ascending date order, with growth_rate exactly (last - first) / first   *)
(* * 100 when more than one day has data and first > 0, and 0 otherwise.   *)
SalesTrendGrowthExact ==
    Done("get_sales_trend") =>
        /\ SalesSeriesIsDailySum
        /\ LET sales == result.out.sales
           IN  IF Len(sales) > 1 /\ sales[1] > 0
               THEN result.out.growth_rate * sales[1] = (sales[Len(sales)] - sales[1]) * 10000
               ELSE result.out.growth_rate = 0

(* C23 (amended): the same, with growth_rate equal to (last - first) /     *)
(* first * 100 rounded to two decimal places (at most half a hundredth     *)
(* away).                                                                  *)
SalesTrendGrowthRounded ==
    Done("get_sales_trend") =>
        /\ SalesSeriesIsDailySum
        /\ LET sales == result.out.sales
           IN  IF Len(sales) > 1 /\ sales[1] > 0
               THEN 2 * Abs(result.out.growth_rate * sales[1] - (sales[Len(sales)] - sales[1]) * 10000) <= sales[1]
               ELSE result.out.growth_rate = 0

(* C23 witness: over the whole store, a day with two snapshots sums to 300 *)
(* and the last day has 100: the growth_rate is -66.67.                    *)
SalesTrendSummedAndRounded ==
    /\ Done("get_sales_trend")
    /\ result.args.product_id = 0
    /\ result.out.sales = <<300, 100>>
    /\ Cardinality({h \in SalesScope : h.date = result.out.dates[1]}) = 2
    /\ result.out.growth_rate = -6667

---------------------------------------------------------------------------
(* data_processing/data_enricher.py: DataEnricher._calculate_price_rating *)

(* floor(e^k) for the exponents the ratings 0..5 give *)
ExpFloor(k) ==
    CASE k = 0 -> 1 [] k = 1 -> 2 [] k = 2 -> 7 [] k = 3 -> 20 [] k = 4 -> 54 [] k = 5 -> 148
      [] k = 6 -> 403 [] k = 7 -> 1096 [] k = 8 -> 2980 [] k = 9 -> 8103 [] k = 10 -> 22026

(* e^k > b for integers k and b >= 1: e^k is irrational for k # 0 *)
ExpGreater(k, b) == k >= 1 /\ ExpFloor(k) >= b

(* rating / (np.log1p(price) + 1) > 1  iff  e^(rating - 1) > 1 + price,    *)
(* and > 0.5  iff  e^(2 * rating - 1) > 1 + price.  A price or rating that *)
(* is None or 0 is falsy: "Unknown".                                       *)
_calculate_price_rating(product) ==
    IF product.price = 0 \/ product.rating = 0 THEN "Unknown"
    ELSE IF ExpGreater(product.rating - 1, 1 + product.price) THEN "Good Value"
    ELSE IF ExpGreater(2 * product.rating - 1, 1 + product.price) THEN "Fair Value"
    ELSE "Expensive"

Call_calculate_price_rating(product) ==
    Call("_calculate_price_rating", product, "none", Returned(_calculate_price_rating(product)))

---------------------------------------------------------------------------
(* SpecTier: the price tier computed for products of every rating, priced  *)
(* on and around the thresholds of both the tier and the value score.      *)

TierPrices == {0, 1, 2, 6, 7, 10, 19, 20, 53, 54, 100, 147, 148}

TierCall ==
    \E price \in TierPrices, rating \in 0 .. 5 : Call_calculate_price_rating([price |-> price, rating |-> rating])

NextTier == TierCall \/ Tick

SpecTier == Init /\ [][NextTier]_vars

(* value_score > 1, for value_score = rating / ln(base): e^rating > base *)
ValueAboveOne(v) == ExpGreater(v.rating, v.base)

(* value_score > 0.5: e^(2 * rating) > base *)
ValueAboveHalf(v) == ExpGreater(2 * v.rating, v.base)

(* C24: the price tier of a product follows the value_score of the value   *)
(* ranking, rating / ln(1 + price): 'Good Value' iff value_score > 1,      *)
(* 'Fair Value' iff 0.5 < value_score <= 1, 'Expensive' otherwise, and     *)
(* 'Unknown' iff price or rating is missing.                               *)
PriceTierFollowsValueScore ==
    result.op = "_calculate_price_rating" =>
        LET value_score == ValueScore(result.args.rating, result.args.price)
        IN  result.out =
                IF result.args.price = 0 \/ result.args.rating = 0 THEN "Unknown"
                ELSE IF ValueAboveOne(value_score) THEN "Good Value"
                ELSE IF ValueAboveHalf(value_score) THEN "Fair Value"
                ELSE "Expensive"

---------------------------------------------------------------------------
(* SpecSessions: the try / except / finally frame of the operations, step  *)
(* by step.  result holds the stack of running methods, each with its      *)
(* position and the session bound to its local name (0 when unbound), and  *)
(* the sessions of the running operation with their state.  Session() and  *)
(* every query may raise.                                                  *)

SessionMethods == {"get_hot_products", "get_rising_products", "get_category_rankings", "get_sales_trend"}

InProgress == IF result.op = "sessions" THEN result ELSE [op |-> "sessions", stack |-> <<>>, sessions |-> <<>>]

Frame(method, pc, session, todo) == [method |-> method, pc |-> pc, session |-> session, todo |-> todo]

TopFrame == InProgress.stack[Len(InProgress.stack)]

(* The stack with its top frame replaced *)
WithTop(frame) == [InProgress.stack EXCEPT ![Len(InProgress.stack)] = frame]

Step(stack, sessions) ==
    /\ result' = [op |-> "sessions", stack |-> stack, sessions |-> sessions]
    /\ UNCHANGED <<products, history, now>>

(* A caller invokes an operation *)
EnterOperation(method) ==
    /\ InProgress.stack = <<>>
    /\ Step(<<Frame(method, "try", 0, {})>>, <<>>)

(* session = self.db.Session() *)
AcquireSession ==
    /\ InProgress.stack # <<>> /\ TopFrame.pc = "try"
    /\ Step(WithTop([TopFrame EXCEPT !.pc = "body", !.session = Len(InProgress.sessions) + 1]),
            Append(InProgress.sessions, [open |-> TRUE, closes |-> 0]))

(* self.db.Session() raises: session stays unbound *)
SessionRaises ==
    /\ InProgress.stack # <<>> /\ TopFrame.pc = "try"
    /\ Step(WithTop([TopFrame EXCEPT !.pc = "except"]), InProgress.sessions)

(* A query or the computation raises inside try *)
BodyRaises ==
    /\ InProgress.stack # <<>> /\ TopFrame.pc \in {"body", "loop"}
    /\ Step(WithTop([TopFrame EXCEPT !.pc = "except"]), InProgress.sessions)

(* if not product_ids: return [], if not results: return {...} *)
ReturnsEarly ==
    /\ InProgress.stack # <<>> /\ TopFrame.pc = "body"
    /\ \/ TopFrame.method = "get_rising_products" /\ products = <<>>
       \/ TopFrame.method = "get_sales_trend" /\ TrendRows(0, "", "", 2) = {}
    /\ Step(WithTop([TopFrame EXCEPT !.pc = "finally"]), InProgress.sessions)

(* The method runs to its return statement *)
ReturnsResult ==
    /\ InProgress.stack # <<>> /\ TopFrame.pc = "body"
    /\ \/ TopFrame.method = "get_hot_products"
       \/ TopFrame.method = "get_rising_products" /\ products # <<>>
       \/ TopFrame.method = "get_sales_trend" /\ TrendRows(0, "", "", 2) # {}
    /\ Step(WithTop([TopFrame EXCEPT !.pc = "finally"]), InProgress.sessions)

(* get_category_rankings: categories = [c[0] for c in category_query.all()] *)
QueryCategories ==
    /\ InProgress.stack # <<>> /\ TopFrame.pc = "body"
    /\ TopFrame.method = "get_category_rankings"
    /\ Step(WithTop([TopFrame EXCEPT !.pc = "loop", !.todo = {products[i].category : i \in DOMAIN products}]),
            InProgress.sessions)

(* for category in categories: products = self.get_hot_products(...) *)
CallsHotProducts ==
    /\ InProgress.stack # <<>> /\ TopFrame.pc = "loop"
    /\ \E category \in TopFrame.todo :
           Step(Append(WithTop([TopFrame EXCEPT !.todo = @ \ {category}]), Frame("get_hot_products", "try", 0, {})),
                InProgress.sessions)

(* The loop over the categories is over: return result *)
LoopEnds ==
    /\ InProgress.stack # <<>> /\ TopFrame.pc = "loop"
    /\ TopFrame.todo = {}
    /\ Step(WithTop([TopFrame EXCEPT !.pc = "finally"]), InProgress.sessions)

(* except Exception as e: log, return the empty container *)
HandlesException ==
    /\ InProgress.stack # <<>> /\ TopFrame.pc = "except"
    /\ Step(WithTop([TopFrame EXCEPT !.pc = "finally"]), InProgress.sessions)

(* The frame ends without closing its session *)
ReturnsWithoutClose ==
    /\ InProgress.stack # <<>> /\ TopFrame.pc = "finally"
    /\ TopFrame.session # 0
    /\ Step(SubSeq(InProgress.stack, 1, Len(InProgress.stack) - 1), InProgress.sessions)

(* finally: session.close(), then the method returns to its caller *)
ClosesSession ==
    /\ InProgress.stack # <<>> /\ TopFrame.pc = "finally"
    /\ TopFrame.session # 0
    /\ Step(SubSeq(InProgress.stack, 1, Len(InProgress.stack) - 1),
            [InProgress.sessions EXCEPT ![TopFrame.session] = [open |-> FALSE, closes |-> @.closes + 1]])

(* finally: session.close() with session unbound raises UnboundLocalError, *)
(* which reaches the try block of the caller, if there is one              *)
CloseRaises ==
    /\ InProgress.stack # <<>> /\ TopFrame.pc = "finally"
    /\ TopFrame.session = 0
    /\ LET callers == SubSeq(InProgress.stack, 1, Len(InProgress.stack) - 1)
       IN  Step(IF callers = <<>> THEN callers
                ELSE [callers EXCEPT ![Len(callers)] = [@ EXCEPT !.pc = "except"]],
                InProgress.sessions)

SessionsWriteProduct == InProgress.stack = <<>> /\ RepeatWriteProduct

SessionsWriteSnapshot == InProgress.stack = <<>> /\ FillWriteSnapshot

NextSessions ==
    \/ SessionsWriteProduct
    \/ SessionsWriteSnapshot
    \/ \E method \in SessionMethods : EnterOperation(method)
    \/ AcquireSession
    \/ SessionRaises
    \/ BodyRaises
    \/ ReturnsEarly
    \/ ReturnsResult
    \/ QueryCategories
    \/ CallsHotProducts
    \/ LoopEnds
    \/ HandlesException
    \/ ClosesSession
    \/ CloseRaises

SpecSessions == Init /\ [][NextSessions]_vars

(* C25: a session is closed at most once, it is open only while the method *)
(* that acquired it is running, and once the operation has returned every  *)
(* session it acquired, the nested ones included, has been closed exactly   *)
(* once.                                                                    *)
SessionsClosedOnce ==
    result.op = "sessions" =>
        /\ \A id \in DOMAIN result.sessions :
               /\ result.sessions[id].closes <= 1
               /\ result.sessions[id].open <=> result.sessions[id].closes = 0
               /\ result.sessions[id].open => \E i \in DOMAIN result.stack : result.stack[i].session = id
        /\ result.stack = <<>> => \A id \in DOMAIN result.sessions : result.sessions[id].closes = 1

(* C25 witness: get_category_rankings has returned after three sessions,   *)
(* its own and the nested ones of get_hot_products for two categories.     *)
NestedSessionsClosed ==
    /\ result.op = "sessions"
    /\ result.stack = <<>>
    /\ Len(result.sessions) = 3
    /\ \A id \in DOMAIN result.sessions : result.sessions[id].closes = 1

---------------------------------------------------------------------------
(* data_collection/base_collector.py *)
(* SpecRetry: collect_with_retry, one statement at a time. Every request   *)
(* of a call can succeed, fail with a request error, or answer a body that *)
(* does not parse.                                                          *)

MaxRetry == 3

RetryDelays == {1, 2}

RetryMethods == {"GET", "post", "PUT"}

MethodUpper(method) == IF method = "post" THEN "POST" ELSE method

Collecting == result.op = "collect_with_retry"

(* for attempt in range(retry_count): *)
EntersCollect ==
    \E method \in RetryMethods, retry_count \in 0 .. MaxRetry, retry_delay \in RetryDelays :
        /\ result' = [op |-> "collect_with_retry", method |-> method, retry_count |-> retry_count,
                      retry_delay |-> retry_delay, attempt |-> 0, log |-> <<>>, waits |-> <<>>,
                      pc |-> "loop", out |-> None]
        /\ UNCHANGED <<products, history, now>>

(* The loop takes its next attempt, or is exhausted and the method ends    *)
(* without a return statement                                              *)
NextAttempt ==
    /\ Collecting /\ result.pc = "loop"
    /\ result' = IF result.attempt < result.retry_count
                 THEN [result EXCEPT !.pc = "request"]
                 ELSE [result EXCEPT !.pc = "returned", !.out = None]
    /\ UNCHANGED <<products, history, now>>

(* raise ValueError(...): not a RequestException, it leaves the method *)
UnsupportedMethod ==
    /\ Collecting /\ result.pc = "request"
    /\ MethodUpper(result.method) \notin {"GET", "POST"}
    /\ result' = [result EXCEPT !.pc = "raised", !.out = "ValueError"]
    /\ UNCHANGED <<products, history, now>>

(* return response.json() *)
RequestSucceeds ==
    /\ Collecting /\ result.pc = "request"
    /\ MethodUpper(result.method) \in {"GET", "POST"}
    /\ result' = [result EXCEPT !.log = Append(@, "ok"), !.pc = "returned", !.out = "response"]
    /\ UNCHANGED <<products, history, now>>

(* except requests.RequestException: raise on the last attempt *)
Caught(r) ==
    IF r.attempt = r.retry_count - 1
    THEN [r EXCEPT !.log = Append(@, "fail"), !.pc = "raised", !.out = "RequestException"]
    ELSE [r EXCEPT !.log = Append(@, "fail"), !.pc = "sleep"]

RequestFails ==
    /\ Collecting /\ result.pc = "request"
    /\ MethodUpper(result.method) \in {"GET", "POST"}
    /\ result' = Caught(result)
    /\ UNCHANGED <<products, history, now>>

(* response.json() raises: a RequestException in the releases of requests  *)
(* that have requests.JSONDecodeError, a plain ValueError in the others    *)
ParseFails ==
    /\ Collecting /\ result.pc = "request"
    /\ MethodUpper(result.method) \in {"GET", "POST"}
    /\ \/ result' = Caught(result)
       \/ result' = [result EXCEPT !.log = Append(@, "fail"), !.pc = "raised", !.out = "ValueError"]
    /\ UNCHANGED <<products, history, now>>

(* delay = retry_delay * (2 ** attempt) + random.uniform(0, 1) *)
Sleeps ==
    /\ Collecting /\ result.pc = "sleep"
    /\ \E jitter \in {0, 1} :
           result' = [result EXCEPT !.waits = Append(@, result.retry_delay * Pow(2, result.attempt) + jitter),
                                    !.attempt = @ + 1, !.pc = "loop"]
    /\ UNCHANGED <<products, history, now>>

NextRetry ==
    \/ EntersCollect
    \/ NextAttempt
    \/ UnsupportedMethod
    \/ RequestSucceeds
    \/ RequestFails
    \/ ParseFails
    \/ Sleeps
    \/ Tick

SpecRetry == Init /\ [][NextRetry]_vars

CollectEnded == Collecting /\ result.pc \in {"returned", "raised"}

(* At most retry_count requests, a success only as the last one, a wait of *)
(* at least retry_delay * 2^attempt after each failure that is retried,    *)
(* and the request error once retry_count requests have failed             *)
RetrySchedule ==
    /\ Len(result.log) <= result.retry_count
    /\ \A k \in DOMAIN result.log : result.log[k] = "ok" => (k = Len(result.log) /\ result.pc = "returned")
    /\ \A k \in DOMAIN result.waits : result.waits[k] >= result.retry_delay * Pow(2, k - 1)
    /\ Len(result.log) > 1 => Len(result.waits) >= Len(result.log) - 1
    /\ (Len(result.log) = result.retry_count /\ result.retry_count > 0 /\ result.log[Len(result.log)] = "fail")
           => (result.pc = "raised")

(* C28: collect_with_retry makes at most retry_count requests, returns the *)
(* response of the first successful one, waits at least                    *)
(* retry_delay * 2^attempt between failures, raises after the last         *)
(* failure, and for every retry_count ends with a response or an error,    *)
(* never with an empty return.                                             *)
RetryEndsWithResponseOrError ==
    Collecting =>
        /\ RetrySchedule
        /\ CollectEnded => (result.pc = "raised" \/ result.out = "response")

(* What holds of the calls that are given at least one attempt *)
RetryHoldsFromOneAttempt ==
    (Collecting /\ result.retry_count >= 1) =>
        /\ RetrySchedule
        /\ CollectEnded => (result.pc = "raised" \/ result.out = "response")

---------------------------------------------------------------------------
(* SpecEnrich: enrich_products on a batch, its worker pool one step at a   *)
(* time. The pool starts the tasks in the order of the batch, runs at most *)
(* max_workers of them at once and finishes them in any order; the llm     *)
(* service can raise in any of them.                                       *)

MaxBatch == 3

(* A cleaned product, as the collector's batch holds it *)
CleanedProduct(id) ==
    [product_id |-> id, price |-> 10, rating |-> id + 2, sales_volume |-> 100 * id, reviews_count |-> 20 * id]

(* _calculate_popularity_score of the enricher *)
EnricherPopularity(product) ==
    Min(Min(product.sales_volume \div 100, 50) + Min(product.reviews_count \div 20, 25) + 5 * product.rating, 100)

(* enriched = product.copy(), then the new keys; the product has no name   *)
(* and no description, so no keywords                                      *)
_enrich_product(product) ==
    product @@ [keywords |-> <<>>,
                popularity_score |-> EnricherPopularity(product),
                price_rating |-> _calculate_price_rating(product)]

Batches ==
    UNION {{b \in [1 .. n -> 1 .. MaxBatch] : \A i, j \in 1 .. n : i # j => b[i] # b[j]} : n \in 0 .. MaxBatch}

Enriching == result.op = "enrich_products" /\ result.pc = "pool"

InProgressTasks == {i \in DOMAIN result.task : result.task[i] = "running"}

(* if not products: return []; else the batch is mapped on the pool *)
EntersEnrich ==
    \E b \in Batches, max_workers \in {1, 2} :
        LET batch == [i \in DOMAIN b |-> CleanedProduct(b[i])]
        IN  /\ result' = [op |-> "enrich_products", given |-> batch, products |-> batch,
                          max_workers |-> max_workers,
                          task |-> [i \in DOMAIN b |-> "queued"],
                          failed |-> [i \in DOMAIN b |-> FALSE],
                          done |-> [i \in DOMAIN b |-> <<>>],
                          finished |-> <<>>,
                          pc |-> IF batch = <<>> THEN "returned" ELSE "pool",
                          out |-> <<>>]
            /\ UNCHANGED <<products, history, now>>

(* A free worker takes the oldest task of the queue *)
WorkerTakes(i) ==
    /\ Enriching
    /\ i \in DOMAIN result.task /\ result.task[i] = "queued"
    /\ \A j \in 1 .. i - 1 : result.task[j] # "queued"
    /\ Cardinality(InProgressTasks) < result.max_workers
    /\ result' = [result EXCEPT !.task[i] = "running"]
    /\ UNCHANGED <<products, history, now>>

(* _enrich_product returns the enriched copy *)
WorkerEnriches(i) ==
    /\ Enriching
    /\ i \in DOMAIN result.task /\ result.task[i] = "running"
    /\ result' = [result EXCEPT !.task[i] = "done", !.done[i] = _enrich_product(result.products[i]),
                                !.finished = Append(@, i)]
    /\ UNCHANGED <<products, history, now>>

(* except Exception: return product *)
WorkerFails(i) ==
    /\ Enriching
    /\ i \in DOMAIN result.task /\ result.task[i] = "running"
    /\ result' = [result EXCEPT !.task[i] = "done", !.failed[i] = TRUE, !.done[i] = result.products[i],
                                !.finished = Append(@, i)]
    /\ UNCHANGED <<products, history, now>>

(* The results taken as the tasks complete *)
CollectsAsCompleted ==
    /\ Enriching
    /\ \A i \in DOMAIN result.task : result.task[i] = "done"
    /\ result' = [result EXCEPT !.pc = "returned",
                                !.out = [k \in DOMAIN result.finished |-> result.done[result.finished[k]]]]
    /\ UNCHANGED <<products, history, now>>

(* list(executor.map(...)): the results in the order of the batch, once    *)
(* every task is done                                                      *)
CollectsInOrder ==
    /\ Enriching
    /\ \A i \in DOMAIN result.task : result.task[i] = "done"
    /\ result' = [result EXCEPT !.pc = "returned", !.out = result.done]
    /\ UNCHANGED <<products, history, now>>

NextEnrich ==
    \/ EntersEnrich
    \/ \E i \in 1 .. MaxBatch : WorkerTakes(i)
    \/ \E i \in 1 .. MaxBatch : WorkerEnriches(i)
    \/ \E i \in 1 .. MaxBatch : WorkerFails(i)
    \/ CollectsInOrder

SpecEnrich == Init /\ [][NextEnrich]_vars

(* C29: enrich_products never has more than max_workers products in        *)
(* progress, leaves the records of its input as they were, and returns a   *)
(* list as long as the input whose i-th element is the enrichment of the   *)
(* i-th input, or the i-th input itself when its enrichment failed.        *)
EnrichKeepsOrder ==
    result.op = "enrich_products" =>
        /\ Cardinality(InProgressTasks) <= result.max_workers
        /\ result.products = result.given
        /\ result.pc = "returned" =>
               /\ Len(result.out) = Len(result.given)
               /\ \A i \in DOMAIN result.given :
                      result.out[i] = IF result.failed[i] THEN result.given[i]
                                      ELSE _enrich_product(result.given[i])

(* C29 witness: a batch of three has been returned after its tasks         *)
(* finished out of order, two running at once, one of them failing.        *)
EnrichedOutOfOrder ==
    /\ result.op = "enrich_products" /\ result.pc = "returned"
    /\ Len(result.given) = 3
    /\ result.max_workers = 2
    /\ result.finished[1] # 1
    /\ \E i, j \in DOMAIN result.failed : result.failed[i] /\ ~result.failed[j]

---------------------------------------------------------------------------
(* SpecCase: the operations that take a platform are called with the name  *)
(* of a platform as the store holds it and as the collectors' classes      *)
(* spell it. The comparison of the store is the one of the default sqlite  *)
(* store, which tells letter case apart.                                   *)

CasePlatforms == {"tiktok", "TikTok"}

CaseCall ==
    \E platform \in CasePlatforms :
        \/ Call_get_hot_products(platform, "", 5, "none")
        \/ Call_get_sales_trend(0, platform, "", 2, "none")
        \/ Call_get_price_performance_ranking(platform, "", 5, "none")
        \/ Call_analyze_sales_trend(platform, "", 2, "none")
        \/ Call_analyze_category_trend(platform, 2, "none")
        \/ Call_analyze_price_trend(platform, "", 2, "none")

NextCase == RepeatWriteProduct \/ AtomicWriteSnapshot \/ Tick \/ CaseCall

SpecCase == Init /\ [][NextCase]_vars

(* What the operation of result answers, on the store as it is, for a      *)
(* platform argument                                                       *)
AnswerFor(platform) ==
    CASE result.op = "get_hot_products" -> get_hot_products(platform, "", 5, "none")
      [] result.op = "get_sales_trend" -> get_sales_trend(0, platform, "", 2, "none")
      [] result.op = "get_price_performance_ranking" -> get_price_performance_ranking(platform, "", 5, "none")
      [] result.op = "analyze_sales_trend" -> analyze_sales_trend(platform, "", 2, "none")
      [] result.op = "analyze_category_trend" -> analyze_category_trend(platform, 2, "none")
      [] result.op = "analyze_price_trend" -> analyze_price_trend(platform, "", 2, "none")

LowercasingOps == {"get_hot_products", "get_sales_trend"}

ComparingOps ==
    {"get_price_performance_ranking", "analyze_sales_trend", "analyze_category_trend", "analyze_price_trend"}

(* get_hot_products and get_sales_trend answer the same for a platform     *)
(* name in any letter case                                                 *)
LowercasingOpsIgnoreCase ==
    (result.op \in LowercasingOps /\ result.now = now) =>
        result.out = AnswerFor(Lower(result.args.platform)).out

(* C30: get_price_performance_ranking, analyze_sales_trend,                *)
(* analyze_category_trend and analyze_price_trend answer for a platform    *)
(* argument in any letter case what they answer for its lowercase form,    *)
(* as get_hot_products and get_sales_trend do.                             *)
PlatformCaseIgnored ==
    (result.op \in ComparingOps /\ result.now = now) =>
        result.out = AnswerFor(Lower(result.args.platform)).out

============================================================================
